---- MODULE Spec2Model ----
(***************************************************************************)
(* Fish Eat Fish: the relay server (server.js) and the local player's      *)
(* growth state machine (js/water-effect.js, class PlayerFish), with the   *)
(* radius curves of the other fish classes.                                *)
(*                                                                         *)
(* Spec        the server: connections, joins, reports, the spawn timer.   *)
(* PlayerSpec  the local PlayerFish as the game loop and the input         *)
(*             listeners drive it.                                         *)
(* ClientSpec, AISpec, GrowthSpec, PredationSpec, BoostHeldSpec,           *)
(* ScreenSpec, PoolSpec, NetSpec and NetFairSpec are introduced where      *)
(* their actions are defined.                                              *)
(*                                                                         *)
(* Numbers.  JavaScript numbers are modelled exactly, in fixed point:      *)
(* fishEaten in thousandths of a fish (0.1 fish = 100, the drain of        *)
(* 0.001 * fishNeededToGrow = fishNeededToGrow thousandths), radii in      *)
(* thousandths of a unit (15 = 15000).  growthProgress is the quotient     *)
(* fishEaten / fishNeededToGrow and is kept as the pair <<num, den>>.      *)
(***************************************************************************)
EXTENDS Integers, Sequences, FiniteSets, TLC

(***************************************************************************)
(* Bounds of the model                                                     *)
(***************************************************************************)
\* socket ids 1..MaxSockets; socket.io's ids are opaque and fresh, so a new
\* connection takes the lowest id no open connection has
MaxSockets == 2
\* food items generated before the first connection (server.js:54 makes 50)
InitialFood == 1
\* gameState.maxFoodItems (server.js:26 sets 100), scaled down
MaxFoodItems == 2
\* food ids ever generated in one behaviour
MaxFoodIds == 2

Sockets == 1..MaxSockets
FoodIds == 1..MaxFoodIds

(***************************************************************************)
(* Program constants of server.js                                          *)
(***************************************************************************)
DefaultWorldWidth == 3840
DefaultWorldHeight == 2160
FoodRadius == 5
FoodValue == 1
SinglePlayerSpawnRate == 2000
MultiplayerSpawnRate == 500
\* foodSpawnInterval when no interval is running
NoTimer == 0

VARIABLES
    \* ---- server.js: gameState and the module-level timer
    players,            \* gameState.players: socket id -> snapshot
    foods,              \* gameState.foods: sequence of food objects
    worldWidth,         \* gameState.worldWidth
    worldHeight,        \* gameState.worldHeight
    connectedPlayers,   \* gameState.connectedPlayers
    foodSpawnInterval,  \* period of the running setInterval, or NoTimer
    liveTimers,         \* the periods of the intervals set and not cleared, oldest first
    conn,               \* the sockets whose 'connection' has fired and 'disconnect' not yet
    nextFoodId,         \* stands for Date.now() + random suffix: a fresh id per food
    emitted,            \* what the last handler emitted: set of [to, ev, arg]
    lastOp,             \* the name of the last handler that ran
    removedCount,       \* history: per food id, how many foodRemoved were emitted
    received,           \* history: per open connection, the first event sent to it and
                        \* how many gameState events it was sent
    \* ---- js/water-effect.js: the local PlayerFish
    player,             \* the PlayerFish fields the growth machine uses
    boostTicks,         \* frames in which boost drained progress, for the bound
    eats,               \* eatFish calls so far, for the bound
    \* ---- one browser: the Game of js/water-effect.js and its MultiplayerManager
    connected,          \* multiplayer.connected
    synced,             \* the open socket has delivered its 'gameState'
    remotePlayers,      \* multiplayer.players, in insertion (for-in) order
    enemies,            \* game.enemies: sequence of EnemyFish
    gameScore,          \* game.score
    localFoods,         \* game.foodManager.foods: the id of each Food (NoId: undefined)
    foodPool,           \* game.foodManager.foodPool.pool, a stack of Food ids
    nextLocalId,        \* stands for Food.reset's Date.now() + random suffix
    gameFoods,          \* game.foods: the ids of the foods the server announced
    now,                \* Date.now()
    lastUpdateTime,     \* multiplayer.lastUpdateTime
    sent,               \* what the last client step emitted, in order
    prevEmitAt,         \* history: the time of the last playerUpdate emitted before
                        \* the last step (NoEmit: there was none)
    \* ---- js/ai-player.js: one AIPlayer
    ai,                 \* the AIPlayer fields its behaviour machine uses
    others,             \* the players array its update is given
    \* ---- js/water-effect.js: the Game's screens and frame loop
    document,           \* the ids of the elements the page has
    app,                \* the Game fields its screens and frame loop use, the
                        \* ids carrying class hidden, the frame requests and
                        \* timeouts pending, and how the last handler ended
    \* ---- js/ai-player.js, js/object-pool.js: one FoodManager, object by object
    foodManager,        \* its foods and its pool's free list, as Food objects,
                        \* with the counts of objects made and of resets
    returned,           \* the last FoodManager call, its argument and its result
    \* ---- server.js and the pages' MultiplayerManagers, joined by connections
    server,             \* gameState: players, foods, connectedPlayers, next food id
    sockets,            \* per connection: its page, its state, the packets in flight
    browsers            \* per page: this.socket, connected, players, game.foods,
                        \* game.player.isAlive, game.isRunning, and the count
                        \* of its playerUpdate packets

serverVars == <<players, foods, worldWidth, worldHeight, connectedPlayers,
                foodSpawnInterval, liveTimers, conn, nextFoodId, emitted, lastOp,
                removedCount, received>>
playerVars == <<player, boostTicks, eats>>
clientVars == <<connected, synced, remotePlayers, enemies, gameScore, localFoods,
                foodPool, nextLocalId, gameFoods, now, lastUpdateTime, sent,
                prevEmitAt>>
aiVars == <<ai, others>>
screenVars == <<document, app>>
poolVars == <<foodManager, returned>>
netVars == <<server, sockets, browsers>>
otherVars == <<aiVars, screenVars, poolVars, netVars>>
vars == <<serverVars, playerVars, clientVars, otherVars>>

(***************************************************************************)
(* Helpers                                                                 *)
(***************************************************************************)
Max(a, b) == IF a >= b THEN a ELSE b
Min(a, b) == IF a <= b THEN a ELSE b

\* ids of the foods in a sequence
FoodIdsOf(fs) == {fs[i].id : i \in 1..Len(fs)}

\* Array.prototype.findIndex(food => food.id === foodId): first index or 0 for -1
FindIndex(fs, foodId) ==
    IF \E i \in 1..Len(fs) : fs[i].id = foodId
    THEN CHOOSE i \in 1..Len(fs) :
            /\ fs[i].id = foodId
            /\ \A j \in 1..(i-1) : fs[j].id # foodId
    ELSE 0

\* splice(length - 1, 1) in place of splice(i, 1): the last entry goes
SpliceLast(fs, i) == SubSeq(fs, 1, Len(fs) - 1)

\* Array.prototype.splice(i, 1)
Splice(fs, i) == [j \in 1..(Len(fs)-1) |-> IF j < i THEN fs[j] ELSE fs[j+1]]

\* the food object generateFood builds; its x, y and colour are random draws
\* no handler reads, and are left out
NewFood(id) == [id |-> id, radius |-> FoodRadius, value |-> FoodValue]

\* a function without the key k (delete obj[k])
Delete(f, k) == [x \in (DOMAIN f) \ {k} |-> f[x]]

\* io.emit(ev, arg): to every connected socket
IoEmit(to, ev, arg) == {[to |-> s, ev |-> ev, arg |-> arg] : s \in to}

\* what a connection has been sent nothing yet looks like in the history
NothingReceived == [first |-> "none", gameStates |-> 0]

\* the history after a handler emitted em and left the connections c open;
\* a handler emits one kind of event, and a closed connection's history ends
Receive(h, em, c) ==
    [s \in Sockets |->
        IF s \notin c THEN NothingReceived
        ELSE LET evs == {e.ev : e \in {x \in em : x.to = s}} IN
             [first |-> IF h[s].first # "none" \/ evs = {} THEN h[s].first
                        ELSE CHOOSE ev \in evs : TRUE,
              gameStates |-> IF "gameState" \in evs
                             THEN Min(2, h[s].gameStates + 1)
                             ELSE h[s].gameStates]]

(***************************************************************************)
(* Payloads the clients send (the event contract, part_000: joinGame,      *)
(* sendPlayerUpdate, sendPlayerRespawn).  0 stands for an absent (falsy)   *)
(* world dimension.                                                        *)
(***************************************************************************)
JoinPayloads ==
    { [name |-> "fish", x |-> 1, y |-> 1, radius |-> 15, color |-> "blue",
       eyeColor |-> "white", pupilColor |-> "black", angle |-> 0,
       worldWidth |-> ww, worldHeight |-> (ww * 9) \div 16] : ww \in {0, 5760} }

UpdatePayloads ==
    { [x |-> 2, y |-> 2, radius |-> 22, angle |-> 1, score |-> 50,
       sizeLevel |-> 2, isAlive |-> TRUE] }

RespawnPayloads ==
    { [x |-> 4, y |-> 4, radius |-> 15, score |-> 25, sizeLevel |-> 1] }

(***************************************************************************)
(* server.js                                                               *)
(***************************************************************************)
\* the object socket.emit('gameState', gameState) serialises
GameState(ps, fs, ww, wh, cp) ==
    [players |-> ps, foods |-> fs, enemies |-> <<>>, worldWidth |-> ww,
     worldHeight |-> wh, maxFoodItems |-> MaxFoodItems, connectedPlayers |-> cp]

\* startFoodSpawning without the early return at 0 players (the one-line
\* form spawnRate = connectedPlayers === 1 ? 2000 : 500)
StartFoodSpawningNoPause(cp) ==
    IF cp = 1 THEN SinglePlayerSpawnRate ELSE MultiplayerSpawnRate

\* startFoodSpawning(): clears the running interval, then starts none, a
\* 2000 ms or a 500 ms one; the result is the period of the interval that runs
StartFoodSpawning(cp) ==
    IF cp = 0 THEN NoTimer
    ELSE IF cp = 1 THEN SinglePlayerSpawnRate
    ELSE MultiplayerSpawnRate

\* clearInterval(foodSpawnInterval): the handle names the interval set last
clearInterval(timers, handle) ==
    IF handle = NoTimer \/ timers = <<>> THEN timers
    ELSE SubSeq(timers, 1, Len(timers) - 1)

\* startFoodSpawning without its clearInterval
SpawnTimersUncleared(timers, handle, cp) ==
    IF StartFoodSpawning(cp) = NoTimer THEN timers
    ELSE Append(timers, StartFoodSpawning(cp))

\* startFoodSpawning(): the intervals that run after it
SpawnTimers(timers, handle, cp) ==
    IF StartFoodSpawning(cp) = NoTimer THEN clearInterval(timers, handle)
    ELSE Append(clearInterval(timers, handle), StartFoodSpawning(cp))

\* the snapshot playerJoin stores
JoinSnapshot(s, d) ==
    [id |-> s, name |-> d.name, x |-> d.x, y |-> d.y, radius |-> d.radius,
     color |-> d.color, eyeColor |-> d.eyeColor, pupilColor |-> d.pupilColor,
     angle |-> d.angle, score |-> 0, sizeLevel |-> 1, isAlive |-> TRUE]

\* the playerUpdate write without the isAlive field: a snapshot marked dead
\* by playerEaten stays dead whatever its owner reports
UpdateSnapshotKeepsAlive(p, d) ==
    [p EXCEPT !.x = d.x, !.y = d.y, !.radius = d.radius, !.angle = d.angle,
              !.score = d.score, !.sizeLevel = d.sizeLevel]

\* the snapshot after playerUpdate wrote the payload's fields
UpdateSnapshot(p, d) ==
    [p EXCEPT !.x = d.x, !.y = d.y, !.radius = d.radius, !.angle = d.angle,
              !.score = d.score, !.sizeLevel = d.sizeLevel, !.isAlive = d.isAlive]

\* the playerRespawn write without isAlive = true
RespawnSnapshotStaysDead(p, d) ==
    [p EXCEPT !.x = d.x, !.y = d.y, !.radius = d.radius, !.score = d.score,
              !.sizeLevel = d.sizeLevel]

\* the snapshot after playerRespawn wrote the payload's fields
RespawnSnapshot(p, d) ==
    [p EXCEPT !.x = d.x, !.y = d.y, !.radius = d.radius, !.score = d.score,
              !.sizeLevel = d.sizeLevel, !.isAlive = TRUE]

\* the condition under which the interval callback emits foodSpawned
SpawnBroadcast(cp) == cp > 0

\* the condition under which the handlers fan out to the other players
FanOut(cp) == cp > 1

\* the connection handler with io.emit in place of socket.emit: the state
\* goes to every open connection
ConnectionAnnounces(s) ==
    /\ s \notin conn
    /\ \A t \in Sockets \ conn : s <= t
    /\ conn' = conn \cup {s}
    /\ connectedPlayers' = connectedPlayers + 1
    /\ foodSpawnInterval' = StartFoodSpawning(connectedPlayers')
    /\ liveTimers' = SpawnTimers(liveTimers, foodSpawnInterval, connectedPlayers')
    /\ emitted' = IoEmit(conn', "gameState",
                         GameState(players, foods, worldWidth, worldHeight,
                                   connectedPlayers'))
    /\ lastOp' = "connection"
    /\ UNCHANGED <<playerVars, clientVars, otherVars>>
    /\ UNCHANGED <<players, foods, worldWidth, worldHeight, nextFoodId, removedCount>>
    /\ received' = Receive(received, emitted', conn')

\* io.on('connection')
Connection(s) ==
    /\ s \notin conn
    /\ \A t \in Sockets \ conn : s <= t
    /\ conn' = conn \cup {s}
    /\ connectedPlayers' = connectedPlayers + 1
    /\ foodSpawnInterval' = StartFoodSpawning(connectedPlayers')
    /\ liveTimers' = SpawnTimers(liveTimers, foodSpawnInterval, connectedPlayers')
    /\ emitted' = {[to |-> s, ev |-> "gameState",
                    arg |-> GameState(players, foods, worldWidth, worldHeight,
                                      connectedPlayers')]}
    /\ lastOp' = "connection"
    /\ UNCHANGED <<playerVars, clientVars, otherVars>>
    /\ UNCHANGED <<players, foods, worldWidth, worldHeight, nextFoodId, removedCount>>
    /\ received' = Receive(received, emitted', conn')

\* playerJoin that also counts the player (the count kept per join
\* instead of per connection)
PlayerJoinCounts(s, d) ==
    /\ s \in conn
    /\ players' = (s :> JoinSnapshot(s, d)) @@ players
    /\ connectedPlayers' = connectedPlayers + 1
    /\ IF d.worldWidth # 0 /\ d.worldHeight # 0
       THEN /\ worldWidth' = Max(worldWidth, d.worldWidth)
            /\ worldHeight' = Max(worldHeight, d.worldHeight)
       ELSE UNCHANGED <<worldWidth, worldHeight>>
    /\ emitted' = IF FanOut(connectedPlayers')
                  THEN IoEmit(conn \ {s}, "playerJoined", players'[s])
                  ELSE {}
    /\ lastOp' = "playerJoin"
    /\ UNCHANGED <<playerVars, clientVars, otherVars>>
    /\ UNCHANGED <<foods, foodSpawnInterval, liveTimers, conn, nextFoodId, removedCount>>
    /\ received' = Receive(received, emitted', conn')

\* socket.on('playerJoin')
PlayerJoin(s, d) ==
    /\ s \in conn
    /\ players' = (s :> JoinSnapshot(s, d)) @@ players
    /\ IF d.worldWidth # 0 /\ d.worldHeight # 0
       THEN /\ worldWidth' = Max(worldWidth, d.worldWidth)
            /\ worldHeight' = Max(worldHeight, d.worldHeight)
       ELSE UNCHANGED <<worldWidth, worldHeight>>
    /\ emitted' = IF FanOut(connectedPlayers)
                  THEN IoEmit(conn \ {s}, "playerJoined", players'[s])
                  ELSE {}
    /\ lastOp' = "playerJoin"
    /\ UNCHANGED <<playerVars, clientVars, otherVars>>
    /\ UNCHANGED <<foods, connectedPlayers, foodSpawnInterval, liveTimers, conn, nextFoodId,
                   removedCount>>
    /\ received' = Receive(received, emitted', conn')

\* playerUpdate that skips the whole update, not only the broadcast, while
\* no other player is connected
PlayerUpdateSkippedAlone(s, d) ==
    /\ s \in conn
    /\ IF s \in DOMAIN players /\ FanOut(connectedPlayers)
       THEN /\ players' = [players EXCEPT ![s] = UpdateSnapshot(@, d)]
            /\ emitted' = IoEmit(conn \ {s}, "playerMoved", players'[s])
       ELSE /\ UNCHANGED players
            /\ emitted' = {}
    /\ lastOp' = "playerUpdate"
    /\ UNCHANGED <<playerVars, clientVars, otherVars>>
    /\ UNCHANGED <<foods, worldWidth, worldHeight, connectedPlayers,
                   foodSpawnInterval, liveTimers, conn, nextFoodId, removedCount>>
    /\ received' = Receive(received, emitted', conn')

\* socket.on('playerUpdate')
PlayerUpdate(s, d) ==
    /\ s \in conn
    /\ IF s \in DOMAIN players
       THEN /\ players' = [players EXCEPT ![s] = UpdateSnapshot(@, d)]
            /\ emitted' = IF FanOut(connectedPlayers)
                          THEN IoEmit(conn \ {s}, "playerMoved", players'[s])
                          ELSE {}
       ELSE /\ UNCHANGED players
            /\ emitted' = {}
    /\ lastOp' = "playerUpdate"
    /\ UNCHANGED <<playerVars, clientVars, otherVars>>
    /\ UNCHANGED <<foods, worldWidth, worldHeight, connectedPlayers,
                   foodSpawnInterval, liveTimers, conn, nextFoodId, removedCount>>
    /\ received' = Receive(received, emitted', conn')

\* foodEaten without the foodIndex !== -1 test: splice(-1, 1) takes the last
\* entry off and foodRemoved is emitted all the same
FoodEatenUnchecked(s, foodId) ==
    /\ s \in conn
    /\ LET foodIndex == FindIndex(foods, foodId) IN
       /\ foods' = IF foodIndex # 0 THEN Splice(foods, foodIndex)
                   ELSE IF Len(foods) > 0 THEN Splice(foods, Len(foods))
                   ELSE foods
       /\ emitted' = IoEmit(conn, "foodRemoved", foodId)
       /\ removedCount' = [removedCount EXCEPT ![foodId] = Min(2, @ + 1)]
    /\ lastOp' = "foodEaten"
    /\ UNCHANGED <<playerVars, clientVars, otherVars>>
    /\ UNCHANGED <<players, worldWidth, worldHeight, connectedPlayers,
                   foodSpawnInterval, liveTimers, conn, nextFoodId>>
    /\ received' = Receive(received, emitted', conn')

\* socket.on('foodEaten')
FoodEaten(s, foodId) ==
    /\ s \in conn
    /\ LET foodIndex == FindIndex(foods, foodId) IN
       IF foodIndex # 0
       THEN /\ foods' = Splice(foods, foodIndex)
            /\ emitted' = IoEmit(conn, "foodRemoved", foodId)
            /\ removedCount' = [removedCount EXCEPT ![foodId] = @ + 1]
       ELSE /\ UNCHANGED <<foods, removedCount>>
            /\ emitted' = {}
    /\ lastOp' = "foodEaten"
    /\ UNCHANGED <<playerVars, clientVars, otherVars>>
    /\ UNCHANGED <<players, worldWidth, worldHeight, connectedPlayers,
                   foodSpawnInterval, liveTimers, conn, nextFoodId>>
    /\ received' = Receive(received, emitted', conn')

\* playerEaten that announces the death whether or not the id is registered
PlayerEatenUnchecked(s, eatenPlayerId) ==
    /\ s \in conn
    /\ players' = IF eatenPlayerId \in DOMAIN players
                  THEN [players EXCEPT ![eatenPlayerId].isAlive = FALSE]
                  ELSE players
    /\ emitted' = IoEmit(conn, "playerDied", eatenPlayerId)
    /\ lastOp' = "playerEaten"
    /\ UNCHANGED <<playerVars, clientVars, otherVars>>
    /\ UNCHANGED <<foods, worldWidth, worldHeight, connectedPlayers,
                   foodSpawnInterval, liveTimers, conn, nextFoodId, removedCount>>
    /\ received' = Receive(received, emitted', conn')

\* socket.on('playerEaten')
PlayerEaten(s, eatenPlayerId) ==
    /\ s \in conn
    /\ IF eatenPlayerId \in DOMAIN players
       THEN /\ players' = [players EXCEPT ![eatenPlayerId].isAlive = FALSE]
            /\ emitted' = IoEmit(conn, "playerDied", eatenPlayerId)
       ELSE /\ UNCHANGED players
            /\ emitted' = {}
    /\ lastOp' = "playerEaten"
    /\ UNCHANGED <<playerVars, clientVars, otherVars>>
    /\ UNCHANGED <<foods, worldWidth, worldHeight, connectedPlayers,
                   foodSpawnInterval, liveTimers, conn, nextFoodId, removedCount>>
    /\ received' = Receive(received, emitted', conn')

\* socket.on('playerRespawn')
PlayerRespawn(s, d) ==
    /\ s \in conn
    /\ IF s \in DOMAIN players
       THEN /\ players' = [players EXCEPT ![s] = RespawnSnapshot(@, d)]
            /\ emitted' = IF FanOut(connectedPlayers)
                          THEN IoEmit(conn, "playerRespawned", players'[s])
                          ELSE {}
       ELSE /\ UNCHANGED players
            /\ emitted' = {}
    /\ lastOp' = "playerRespawn"
    /\ UNCHANGED <<playerVars, clientVars, otherVars>>
    /\ UNCHANGED <<foods, worldWidth, worldHeight, connectedPlayers,
                   foodSpawnInterval, liveTimers, conn, nextFoodId, removedCount>>
    /\ received' = Receive(received, emitted', conn')

\* socket.on('disconnect')
Disconnect(s) ==
    /\ s \in conn
    /\ conn' = conn \ {s}
    /\ connectedPlayers' = Max(0, connectedPlayers - 1)
    /\ foodSpawnInterval' = StartFoodSpawning(connectedPlayers')
    /\ liveTimers' = SpawnTimers(liveTimers, foodSpawnInterval, connectedPlayers')
    /\ IF s \in DOMAIN players
       THEN /\ players' = Delete(players, s)
            /\ emitted' = IF connectedPlayers' > 0
                          THEN IoEmit(conn', "playerLeft", s)
                          ELSE {}
       ELSE /\ UNCHANGED players
            /\ emitted' = {}
    /\ lastOp' = "disconnect"
    /\ UNCHANGED <<playerVars, clientVars, otherVars>>
    /\ UNCHANGED <<foods, worldWidth, worldHeight, nextFoodId, removedCount>>
    /\ received' = Receive(received, emitted', conn')

\* the setInterval callback of startFoodSpawning: generateFood(), then the emit
SpawnTick ==
    /\ foodSpawnInterval # NoTimer
    /\ IF Len(foods) >= MaxFoodItems
       THEN /\ UNCHANGED <<foods, nextFoodId>>
            /\ emitted' = {}
       ELSE /\ nextFoodId <= MaxFoodIds
            /\ foods' = Append(foods, NewFood(nextFoodId))
            /\ nextFoodId' = nextFoodId + 1
            /\ emitted' = IF SpawnBroadcast(connectedPlayers)
                          THEN IoEmit(conn, "foodSpawned", NewFood(nextFoodId))
                          ELSE {}
    /\ lastOp' = "spawnTick"
    /\ UNCHANGED <<playerVars, clientVars, otherVars>>
    /\ UNCHANGED <<players, worldWidth, worldHeight, connectedPlayers,
                   foodSpawnInterval, liveTimers, conn, removedCount>>
    /\ received' = Receive(received, emitted', conn')

\* module load: the empty gameState, the initial food, startFoodSpawning()
ServerInit ==
    /\ players = <<>>
    /\ foods = [i \in 1..InitialFood |-> NewFood(i)]
    /\ worldWidth = DefaultWorldWidth
    /\ worldHeight = DefaultWorldHeight
    /\ connectedPlayers = 0
    /\ foodSpawnInterval = StartFoodSpawning(0)
    /\ liveTimers = SpawnTimers(<<>>, NoTimer, 0)
    /\ conn = {}
    /\ nextFoodId = InitialFood + 1
    /\ emitted = {}
    /\ lastOp = "load"
    /\ removedCount = [id \in FoodIds |-> 0]
    /\ received = [s \in Sockets |-> NothingReceived]

ServerNext ==
    \/ \E s \in Sockets : Connection(s)
    \/ \E s \in Sockets : \E d \in JoinPayloads : PlayerJoin(s, d)
    \/ \E s \in Sockets : \E d \in UpdatePayloads : PlayerUpdate(s, d)
    \/ \E s \in Sockets : \E id \in FoodIds : FoodEaten(s, id)
    \/ \E s \in Sockets : \E id \in Sockets : PlayerEaten(s, id)
    \/ \E s \in Sockets : \E d \in RespawnPayloads : PlayerRespawn(s, d)
    \/ \E s \in Sockets : Disconnect(s)
    \/ SpawnTick

(***************************************************************************)
(* js/water-effect.js: class PlayerFish                                    *)
(***************************************************************************)
\* bounds of the player model
\* the highest sizeLevel a behaviour reaches
MaxLevel == 3
\* eatFish calls per life (between two reset())
MaxEats == 2
\* frames in which boost drains progress, per life
MaxBoostTicks == 20

\* growthAnimation.duration in frames (water-effect.js:268 sets 60), scaled
\* down; the easing is still evaluated at timer / duration
AnimDuration == 4

\* amounts the game passes to eatFish, in thousandths of a fish: 0.1 for a
\* food item (water-effect.js:3015) and remotePlayer.sizeLevel * 0.5 for an
\* eaten remote player, here one of level 14 (part_000:515)
EatAmounts == {100, 7000}

\* n units as a radius in millionths
Units(n) == n * 1000000

RECURSIVE GCD(_, _)
GCD(a, b) == IF b = 0 THEN a ELSE GCD(b, a % b)

\* the number n / d (d > 0) in lowest terms
Frac(n, d) ==
    LET g == GCD(IF n < 0 THEN -n ELSE n, d)
    IN  [num |-> n \div g, den |-> d \div g]

\* Math.floor(x * 1.5) and Math.floor(x / 1.5) for an integer x >= 0
FloorTimes15(x) == (x * 3) \div 2
FloorDiv15(x) == (x * 2) \div 3

\* easeOutElastic(x) in millionths at x = k / 60, k = 1..60:
\* 2^(-10x) * sin((10x - 0.75) * 2pi/3) + 1, and 1 at x = 1
EaseTable ==
    << 162829, 391990, 646447, 890609, 1097457, 1250000, 1341234, 1372917,
       1353553, 1295985, 1214964, 1125000, 1038676, 965544, 911612, 879356,
       868154, 875000, 895354, 923999, 955806, 986326, 1012182, 1031250,
       1042654, 1046615, 1044194, 1036998, 1026870, 1015625, 1004834, 995693,
       988951, 984919, 983519, 984375, 986919, 990500, 994476, 998291,
       1001523, 1003906, 1005332, 1005827, 1005524, 1004625, 1003359, 1001953,
       1000604, 999462, 998619, 998115, 997940, 998047, 998365, 998812,
       999309, 999786, 1000190, 1000000 >>

\* easeOutElastic(progress) for progress = Math.min(1, t / AnimDuration)
easeOutElastic(t) ==
    IF t = 0 THEN 0
    ELSE IF t >= AnimDuration THEN 1000000
    ELSE EaseTable[(t * 60) \div AnimDuration]

\* the constructor's growth fields (water-effect.js:223-273)
NewPlayer ==
    [sizeLevel |-> 1, radius |-> Units(15), score |-> 0, isAlive |-> TRUE,
     boosting |-> FALSE, fishEaten |-> 0, fishNeededToGrow |-> 5,
     growthProgress |-> Frac(0, 1),
     growthAnimation |-> [active |-> FALSE, timer |-> 0,
                          startRadius |-> Units(15), targetRadius |-> Units(15)]]

\* growthAmount computed from the level the fish leaves, as shrink does
growthAmountOfOldLevel(i) == Units(5 + ((i - 1) \div 2) * 2)

\* the radius a level-up to level i adds (grow, after sizeLevel was raised)
growthAmount(i) == Units(5 + (i \div 2) * 2)

\* the radius shrink() takes off when leaving level i (before sizeLevel is lowered)
shrinkAmount(i) == Units(5 + ((i - 1) \div 2) * 2)

\* grow(amount = 1)
grow(p) ==
    [p EXCEPT !.sizeLevel = @ + 1,
              !.fishEaten = 0,
              !.growthProgress = Frac(0, 1),
              !.fishNeededToGrow = FloorTimes15(@),
              !.growthAnimation = [active |-> TRUE, timer |-> 0,
                                   startRadius |-> p.radius,
                                   targetRadius |-> p.radius + growthAmount(p.sizeLevel + 1)]]

\* shrink()
shrink(p) ==
    IF p.sizeLevel <= 1 THEN p
    ELSE LET r == p.radius - shrinkAmount(p.sizeLevel) IN
         [p EXCEPT !.sizeLevel = @ - 1,
                   !.radius = r,
                   !.growthAnimation = [active |-> TRUE, timer |-> 0,
                                        startRadius |-> r + shrinkAmount(p.sizeLevel),
                                        targetRadius |-> r],
                   !.fishNeededToGrow = FloorDiv15(@)]

\* startBoost()
startBoost(p) == IF ~p.isAlive THEN p ELSE [p EXCEPT !.boosting = TRUE]

\* stopBoost leaving the boost on
stopBoostIgnored(p) == p

\* stopBoost()
stopBoost(p) == [p EXCEPT !.boosting = FALSE]

\* the three branches of updateBoost() while boosting
BoostDrains(p) == p.boosting /\ p.fishEaten > 0
BoostShrinks(p) == p.boosting /\ ~(p.fishEaten > 0) /\ p.sizeLevel > 1

\* updateBoost without the Math.max(0, ...) around the drained fishEaten
updateBoostUnclamped(p) ==
    IF ~p.boosting THEN p
    ELSE IF p.fishEaten > 0
    THEN LET fe == p.fishEaten - p.fishNeededToGrow IN
         [p EXCEPT !.fishEaten = fe,
                   !.growthProgress = Frac(fe, p.fishNeededToGrow * 1000)]
    ELSE IF p.sizeLevel > 1
    THEN LET q == shrink(p) IN
         [q EXCEPT !.fishEaten = q.fishNeededToGrow * 900,
                   !.growthProgress = Frac(9, 10)]
    ELSE stopBoost(p)

\* updateBoost seeding the lower level with 90% of the threshold it had
\* before shrink() recomputed it
updateBoostSeedsOldThreshold(p) ==
    IF ~p.boosting THEN p
    ELSE IF p.fishEaten > 0
    THEN LET fe == Max(0, p.fishEaten - p.fishNeededToGrow) IN
         [p EXCEPT !.fishEaten = fe,
                   !.growthProgress = Frac(fe, p.fishNeededToGrow * 1000)]
    ELSE IF p.sizeLevel > 1
    THEN LET q == shrink(p) IN
         [q EXCEPT !.fishEaten = p.fishNeededToGrow * 900,
                   !.growthProgress = Frac(9, 10)]
    ELSE stopBoost(p)

\* updateBoost(); boostDrainRate = 0.001, so the drain is
\* 0.001 * fishNeededToGrow fish = fishNeededToGrow thousandths
updateBoost(p) ==
    IF ~p.boosting THEN p
    ELSE IF p.fishEaten > 0
    THEN LET fe == Max(0, p.fishEaten - p.fishNeededToGrow) IN
         [p EXCEPT !.fishEaten = fe,
                   !.growthProgress = Frac(fe, p.fishNeededToGrow * 1000)]
    ELSE IF p.sizeLevel > 1
    THEN LET q == shrink(p) IN
         [q EXCEPT !.fishEaten = q.fishNeededToGrow * 900,
                   !.growthProgress = Frac(9, 10)]
    ELSE stopBoost(p)

\* updateGrowthAnimation()
updateGrowthAnimation(p) ==
    LET a == p.growthAnimation
        t == a.timer + 1
        done == t >= AnimDuration
        \* targetRadius - startRadius is a whole number of units (grow, shrink)
        r == a.startRadius
             + ((a.targetRadius - a.startRadius) \div 1000000) * easeOutElastic(t)
    IN  [p EXCEPT !.growthAnimation.timer = t,
                  !.growthAnimation.active = ~done,
                  !.radius = IF done THEN a.targetRadius ELSE r]

\* update(): the boost, then the running animation; the movement that
\* follows changes only position, angle and velocity, which are not modelled
update(p) ==
    IF ~p.isAlive THEN p
    ELSE LET q == updateBoost(p) IN
         IF q.growthAnimation.active THEN updateGrowthAnimation(q) ELSE q

\* eatFish scoring with the level it leaves rather than the level it finds
eatFishScoresNewLevel(p, amount) ==
    LET fe == p.fishEaten + amount
        q == [p EXCEPT !.fishEaten = fe,
                       !.growthProgress = Frac(fe, p.fishNeededToGrow * 1000)]
        r == IF fe >= p.fishNeededToGrow * 1000 THEN grow(q) ELSE q
    IN  [r EXCEPT !.score = @ + (amount * 10 * r.sizeLevel) \div 1000]

\* eatFish(amount), amount in thousandths of a fish
eatFish(p, amount) ==
    LET fe == p.fishEaten + amount
        q == [p EXCEPT !.fishEaten = fe,
                       !.score = @ + (amount * 10 * p.sizeLevel) \div 1000,
                       !.growthProgress = Frac(fe, p.fishNeededToGrow * 1000)]
    IN  IF fe >= p.fishNeededToGrow * 1000 THEN grow(q) ELSE q

\* die()
die(p) == [p EXCEPT !.isAlive = FALSE]

\* reset()
reset(p) ==
    [p EXCEPT !.sizeLevel = 1, !.radius = Units(15),
              !.fishEaten = 0, !.fishNeededToGrow = 5,
              !.growthProgress = Frac(0, 1), !.score = 0, !.boosting = FALSE,
              !.growthAnimation.active = FALSE, !.growthAnimation.timer = 0,
              !.isAlive = TRUE]

(***************************************************************************)
(* The radius the other classes derive from a size level                   *)
(***************************************************************************)
\* the sum over i = from..to of 5 + Math.floor(i / 2) * 2, the loop body the
\* three classes share
RECURSIVE LoopSum(_, _)
LoopSum(from, to) ==
    IF from > to THEN 0 ELSE (5 + (from \div 2) * 2) + LoopSum(from + 1, to)

\* createRemotePlayer(...).calculateRadiusFromSizeLevel(): only when the
\* payload carried no radius (0 stands for a falsy radius or sizeLevel)
calculateRadiusFromSizeLevel(radius, sizeLevel) ==
    IF radius = 0 /\ sizeLevel # 0
    THEN Units(15 + LoopSum(1, sizeLevel - 1))
    ELSE radius

\* AIPlayer constructor and respawn: radius for this.sizeLevel
AIPlayerRadius(sizeLevel) == Units(15 + LoopSum(1, sizeLevel - 1))

\* EnemyFish.determineSizeRelativeToPlayer: radius for this.sizeLevel
EnemyFishRadius(sizeLevel) == Units(10 + LoopSum(1, sizeLevel - 1))

(***************************************************************************)
(* The player's operations as the game drives them                         *)
(***************************************************************************)
\* Game.gameLoop: this.player.update() of one frame
Update ==
    /\ player.isAlive
    /\ BoostDrains(player) => boostTicks < MaxBoostTicks
    /\ player' = update(player)
    /\ boostTicks' = IF BoostDrains(player) THEN boostTicks + 1 ELSE boostTicks
    /\ UNCHANGED <<eats, serverVars, clientVars, otherVars>>

\* Game.checkCollisions / checkPlayerCollisions: this.player.eatFish(amount)
EatFish(amount) ==
    /\ LET q == eatFish(player, amount) IN
       /\ q.sizeLevel <= MaxLevel
       /\ eats < MaxEats
       /\ player' = q
       /\ eats' = eats + 1
    /\ UNCHANGED <<boostTicks, serverVars, clientVars, otherVars>>

\* the mousedown / touchstart listeners
StartBoost ==
    /\ player.isAlive
    /\ player' = startBoost(player)
    /\ UNCHANGED <<boostTicks, eats, serverVars, clientVars, otherVars>>

\* the mouseup / touchend listeners
StopBoost ==
    /\ player' = stopBoost(player)
    /\ UNCHANGED <<boostTicks, eats, serverVars, clientVars, otherVars>>

\* Game.checkCollisions: this.player.die()
Die ==
    /\ player.isAlive
    /\ player' = die(player)
    /\ UNCHANGED <<boostTicks, eats, serverVars, clientVars, otherVars>>

\* Game.startGame / startTutorial: this.player.reset()
Reset ==
    /\ player' = reset(player)
    /\ boostTicks' = 0
    /\ eats' = 0
    /\ UNCHANGED <<serverVars, clientVars, otherVars>>

\* ---- the same player in a long game: levels up to MaxDeepLevel, no bound on
\* the boost frames; the player presses or releases the boost button between two
\* growth animations and eats between two boosts
MaxDeepLevel == 4
MaxFeasts == 8

\* remotePlayer.sizeLevel * 0.5 for an eaten remote player of level 26
\* (part_000:515): enough to level up from any threshold met here
FeastAmounts == {13000}

AtRest(p) == p.isAlive /\ ~p.growthAnimation.active

Feast(amount) ==
    /\ AtRest(player)
    /\ ~player.boosting
    /\ eats < MaxFeasts
    /\ LET q == eatFish(player, amount) IN
       /\ q.sizeLevel <= MaxDeepLevel
       /\ player' = q
    /\ eats' = eats + 1
    /\ UNCHANGED <<boostTicks, serverVars, clientVars, otherVars>>

\* Game.gameLoop: this.player.update()
PlayerFrame ==
    /\ player.isAlive
    /\ player' = update(player)
    /\ UNCHANGED <<boostTicks, eats, serverVars, clientVars, otherVars>>

HoldBoost ==
    /\ AtRest(player)
    /\ ~player.boosting
    /\ player' = startBoost(player)
    /\ UNCHANGED <<boostTicks, eats, serverVars, clientVars, otherVars>>

ReleaseBoost ==
    /\ AtRest(player)
    /\ player.boosting
    /\ player' = stopBoost(player)
    /\ UNCHANGED <<boostTicks, eats, serverVars, clientVars, otherVars>>

GrowthNext ==
    \/ \E a \in FeastAmounts : Feast(a)
    \/ PlayerFrame
    \/ HoldBoost
    \/ ReleaseBoost

PlayerInit ==
    /\ player = NewPlayer
    /\ boostTicks = 0
    /\ eats = 0

PlayerNext ==
    \/ Update
    \/ \E a \in EatAmounts : EatFish(a)
    \/ StartBoost
    \/ StopBoost
    \/ Die
    \/ Reset

(***************************************************************************)
(* One browser: Game (js/water-effect.js) with its MultiplayerManager      *)
(* (unnamed/part_000) and FoodManager (js/ai-player.js)                    *)
(***************************************************************************)
\* the other players' ids the server can name to this client
MaxRemotePlayers == 1
\* game.enemies kept at once (maxEnemies of spawnEnemies, scaled down)
MaxEnemies == 1
\* how far above the player's level spawnEnemies draws a new enemy's level
MaxEnemyOffset == 2
\* foodManager.maxFood = game.maxFoodItems (100), scaled down
MaxLocalFoods == 1
\* ids Food.reset may hand out
MaxLocalIds == 2
\* game.foods, the foods the server announced, kept at once
MaxGameFoods == 1
\* eatFish calls of the game's collision passes
MaxClientEats == 1
\* Date.now() runs from StartTime up to this
MaxClock == 200

RemoteIds == 1..MaxRemotePlayers

\* MultiplayerManager constructor: this.updateInterval
updateInterval == 50
\* Date.now() when the game starts; lastUpdateTime starts at 0, far behind it
StartTime == 100
\* the time a frame, or the part of a frame before its collision pass, may take
FrameTimes == {25}
PassTimes == {0, 25}
\* ObjectPool.get: this.expand(10), scaled down
PoolExpand == 1
\* spawnInitialFood: initialCount (50), scaled down with maxFoodItems
InitialLocalFoods == 1
\* no playerUpdate has been emitted: lastUpdateTime starts at 0 as well
NoEmit == 0
\* a Food fresh from the pool's factory has no id
NoId == 0
\* Food.reset: this.id = Date.now() + random suffix, the n-th one handed out;
\* negative, so that it is none of the server's ids
LocalId(n) == 0 - n
\* Food.value = this.radius = random(3, 6): its least whole value
LocalFoodValue == 3

\* this.radius > otherFish.radius * 0.99, on integers and without overflow
canEat(fish, otherFish) ==
    fish.radius > 99 * (otherFish.radius \div 100)
                  + (99 * (otherFish.radius % 100)) \div 100

\* otherFish.radius > this.radius * 0.99
canBeEatenBy(fish, otherFish) == canEat(otherFish, fish)

\* new EnemyFish(canvas, playerSizeLevel): determineSizeRelativeToPlayer
EnemyLevels(playerSizeLevel) ==
    {Max(1, playerSizeLevel - k) : k \in 1..2}
        \cup {playerSizeLevel + k : k \in 1..MaxEnemyOffset}

EnemyFish(sizeLevel) ==
    [sizeLevel |-> sizeLevel, radius |-> EnemyFishRadius(sizeLevel),
     pointValue |-> 10 * sizeLevel]

\* what the server tells about another player: radius 0 stands for a payload
\* without radius
RemotePayloads ==
    {[id |-> i, radius |-> r[1], sizeLevel |-> r[2], isAlive |-> TRUE] :
        i \in RemoteIds, r \in {<<Units(15), 1>>, <<0, 2>>}}

\* createRemotePlayer(playerData)
createRemotePlayer(d) ==
    [id |-> d.id,
     radius |-> calculateRadiusFromSizeLevel(d.radius, d.sizeLevel),
     sizeLevel |-> d.sizeLevel,
     isAlive |-> d.isAlive]

\* the index of this.players[id] in insertion order, 0 when absent
RemoteIndex(rs, id) ==
    IF \E i \in 1..Len(rs) : rs[i].id = id
    THEN CHOOSE i \in 1..Len(rs) : rs[i].id = id
    ELSE 0

\* this.players[d.id] = createRemotePlayer(d): an existing key keeps its place
SetRemote(rs, d) ==
    LET i == RemoteIndex(rs, d.id) IN
    IF i = 0 THEN Append(rs, createRemotePlayer(d))
    ELSE [rs EXCEPT ![i] = createRemotePlayer(d)]

\* the 'gameState' payloads: the registry without this client and the foods
GameStatePayloads ==
    {[players |-> ps, foods |-> fs] :
        ps \in {<<>>} \cup {<<d>> : d \in RemotePayloads},
        fs \in {<<>>} \cup {<<id>> : id \in FoodIds}}

Msg(ev, t, arg) == [ev |-> ev, at |-> t, arg |-> arg]

\* the payload of 'playerUpdate'
PlayerData(p) ==
    [radius |-> p.radius, score |-> p.score, sizeLevel |-> p.sizeLevel,
     isAlive |-> p.isAlive]

\* the Game and MultiplayerManager fields a frame reads and writes
TheGame ==
    [player |-> player, eats |-> eats, score |-> gameScore,
     connected |-> connected, remotePlayers |-> remotePlayers,
     enemies |-> enemies, localFoods |-> localFoods, foodPool |-> foodPool,
     nextLocalId |-> nextLocalId, gameFoods |-> gameFoods,
     lastUpdateTime |-> lastUpdateTime, sent |-> <<>>, stop |-> FALSE]

\* sendPlayerUpdate() without its test of lastUpdateTime
sendPlayerUpdateUnthrottled(g, t) ==
    IF ~g.connected \/ ~g.player.isAlive THEN g
    ELSE LET p == [g.player EXCEPT !.score = g.score] IN
         [g EXCEPT !.lastUpdateTime = t,
                   !.player = p,
                   !.sent = Append(@, Msg("playerUpdate", t, PlayerData(p)))]

\* MultiplayerManager.sendPlayerUpdate() at Date.now() = t
sendPlayerUpdate(g, t) ==
    IF ~g.connected \/ ~g.player.isAlive THEN g
    ELSE IF t - g.lastUpdateTime < updateInterval THEN g
    ELSE LET p == [g.player EXCEPT !.score = g.score] IN
         [g EXCEPT !.lastUpdateTime = t,
                   !.player = p,
                   !.sent = Append(@, Msg("playerUpdate", t, PlayerData(p)))]

\* MultiplayerManager.sendFoodEaten(food)
sendFoodEaten(g, id, t) ==
    IF ~g.connected THEN g
    ELSE [g EXCEPT !.sent = Append(@, Msg("foodEaten", t, [id |-> id]))]

\* sendPlayerEaten emitting nothing
sendPlayerEatenNever(g, id, t) == g

\* MultiplayerManager.sendPlayerEaten(player)
sendPlayerEaten(g, id, t) ==
    IF ~g.connected THEN g
    ELSE [g EXCEPT !.sent = Append(@, Msg("playerEaten", t, [id |-> id]))]

\* Game.updateScore(points); scoreMultiplier is 1 throughout
updateScore(g, points, t) ==
    LET h == [g EXCEPT !.score = @ + points,
                       !.player.score = g.score + points]
    IN  IF h.connected THEN sendPlayerUpdate(h, t) ELSE h

\* FoodManager.spawnFood(): foodPool.get() expands an empty pool with Foods
\* from the factory, which have no id, and pops the top
spawnFood(g) ==
    IF Len(g.localFoods) >= MaxLocalFoods THEN g
    ELSE LET pool == IF Len(g.foodPool) = 0
                     THEN [k \in 1..PoolExpand |-> NoId]
                     ELSE g.foodPool
         IN  [g EXCEPT !.localFoods = Append(@, pool[Len(pool)]),
                       !.foodPool = SubSeq(pool, 1, Len(pool) - 1)]

\* FoodManager.removeFood(index): splice, then foodPool.release(food), whose
\* reset gives the Food a new id
removeFood(g, i) ==
    [g EXCEPT !.localFoods = Splice(@, i),
              !.foodPool = Append(@, LocalId(g.nextLocalId)),
              !.nextLocalId = @ + 1]

\* this.player.eatFish(amount) as the game sees it: the local player is the
\* current player and window.gameInstance is the game, so eatFish copies the
\* player's score to game.score
playerEatFish(g, amount) ==
    LET p == eatFish(g.player, amount)
    IN  [g EXCEPT !.player = p, !.score = p.score, !.eats = @ + 1]

\* checkPlayerCollisions: the for-in loop from the i-th key on; over is the
\* set of ids whose fish overlap the player's
RECURSIVE PlayerPass(_, _, _, _)
PlayerPass(g, i, over, t) ==
    IF i > Len(g.remotePlayers) THEN g
    ELSE LET remotePlayer == g.remotePlayers[i] IN
         IF ~remotePlayer.isAlive \/ remotePlayer.id \notin over
         THEN PlayerPass(g, i + 1, over, t)
         ELSE IF canEat(g.player, remotePlayer)
         THEN LET g1 == updateScore(g, remotePlayer.sizeLevel * 50, t)
                  g2 == [playerEatFish(g1, remotePlayer.sizeLevel * 500) EXCEPT
                            !.remotePlayers[i].isAlive = FALSE]
              IN  PlayerPass(sendPlayerEaten(g2, remotePlayer.id, t), i + 1, over, t)
         ELSE IF canBeEatenBy(g.player, remotePlayer)
         THEN PlayerPass([g EXCEPT !.player = die(@)], i + 1, over, t)
         ELSE PlayerPass(g, i + 1, over, t)

\* MultiplayerManager.checkPlayerCollisions()
checkPlayerCollisions(g, over, t) ==
    IF ~g.player.isAlive THEN g ELSE PlayerPass(g, 1, over, t)

\* checkCollisions: the loop over this.enemies from index i down; stop is
\* the return after this.player.die()
RECURSIVE EnemyPass(_, _, _, _)
EnemyPass(g, i, over, t) ==
    IF i = 0 THEN g
    ELSE LET enemy == g.enemies[i] IN
         IF i \notin over THEN EnemyPass(g, i - 1, over, t)
         ELSE IF canEat(g.player, enemy)
         THEN LET g1 == playerEatFish([g EXCEPT !.enemies = Splice(@, i)], 1000)
              IN  EnemyPass(updateScore(g1, enemy.pointValue, t), i - 1, over, t)
         ELSE IF canBeEatenBy(g.player, enemy)
         THEN [g EXCEPT !.player = die(@), !.stop = TRUE]
         ELSE EnemyPass(g, i - 1, over, t)

\* checkCollisions: the loop over this.foodManager.foods from index i down
RECURSIVE LocalFoodPass(_, _, _, _)
LocalFoodPass(g, i, over, t) ==
    IF i = 0 THEN g
    ELSE IF i \notin over THEN LocalFoodPass(g, i - 1, over, t)
    ELSE LET id == g.localFoods[i]
             g1 == updateScore(g, LocalFoodValue, t)
             g2 == playerEatFish(g1, 100)
             g3 == IF g2.connected /\ id # NoId THEN sendFoodEaten(g2, id, t) ELSE g2
         IN  LocalFoodPass(removeFood(g3, i), i - 1, over, t)

\* checkCollisions: the loop over this.foods, the foods the server announced
RECURSIVE GameFoodPass(_, _, _, _)
GameFoodPass(g, i, over, t) ==
    IF i = 0 THEN g
    ELSE IF i \notin over THEN GameFoodPass(g, i - 1, over, t)
    ELSE LET id == g.gameFoods[i]
             g1 == updateScore(g, FoodValue, t)
             g2 == playerEatFish(g1, 100)
             g3 == IF g2.connected /\ id # NoId THEN sendFoodEaten(g2, id, t) ELSE g2
         IN  GameFoodPass([g3 EXCEPT !.gameFoods = Splice(@, i)], i - 1, over, t)

\* Game.checkCollisions(); the four sets say what overlaps the player
checkCollisions(g, overPlayers, overEnemies, overLocal, overGame, t) ==
    IF ~g.player.isAlive THEN g
    ELSE LET a == IF g.connected THEN checkPlayerCollisions(g, overPlayers, t) ELSE g
             b == EnemyPass(a, Len(a.enemies), overEnemies, t)
         IN  IF b.stop THEN b
             ELSE IF Len(b.localFoods) > 0
             THEN LocalFoodPass(b, Len(b.localFoods), overLocal, t)
             ELSE GameFoodPass(b, Len(b.gameFoods), overGame, t)

\* spawnEnemies() in a frame where it adds an enemy of the level given
\* (0: it adds none)
spawnEnemies(g, level) ==
    IF level = 0 \/ Len(g.enemies) >= MaxEnemies THEN g
    ELSE [g EXCEPT !.enemies = Append(@, EnemyFish(level))]

\* spawnFoods() in a frame where foodSpawnTimer reaches foodSpawnInterval
\* (due) or not
spawnFoods(g, due) == IF due THEN spawnFood(g) ELSE g

\* Game.gameLoop(): one frame
gameLoop(g, t, t2, level, due, overPlayers, overEnemies, overLocal, overGame) ==
    LET a == IF g.connected THEN sendPlayerUpdate(g, t) ELSE g
        b == spawnFoods(spawnEnemies(a, level), due)
        c == [b EXCEPT !.player = update(@)]
    IN  checkCollisions(c, overPlayers, overEnemies, overLocal, overGame, t2)

\* the time of the last playerUpdate among the messages, or the one before
LastEmit(msgs, before) ==
    LET at == {msgs[i].at : i \in {j \in 1..Len(msgs) : msgs[j].ev = "playerUpdate"}}
    IN  IF at = {} THEN before ELSE CHOOSE m \in at : \A n \in at : n <= m

\* a socket event handler that emits nothing and leaves the game alone
Quiet ==
    /\ sent' = <<>>
    /\ prevEmitAt' = LastEmit(sent, prevEmitAt)
    /\ UNCHANGED <<enemies, gameScore, localFoods, foodPool, nextLocalId, now,
                   lastUpdateTime, serverVars, playerVars, otherVars>>

\* socket.on('connect'): connected = true, then joinGame()
OnConnect ==
    /\ ~connected
    /\ connected' = TRUE
    /\ sent' = <<Msg("playerJoin", now, [radius |-> player.radius])>>
    /\ prevEmitAt' = LastEmit(sent, prevEmitAt)
    /\ UNCHANGED <<synced, remotePlayers, enemies, gameScore, localFoods, foodPool,
                   nextLocalId, gameFoods, now, lastUpdateTime,
                   serverVars, playerVars, otherVars>>

\* socket.on('disconnect') without this.connected = false
OnDisconnectStaysConnected ==
    /\ connected
    /\ synced' = FALSE
    /\ Quiet
    /\ UNCHANGED <<connected, remotePlayers, gameFoods>>

\* socket.on('disconnect')
OnDisconnect ==
    /\ connected
    /\ connected' = FALSE
    /\ synced' = FALSE
    /\ Quiet
    /\ UNCHANGED <<remotePlayers, gameFoods>>

\* socket.on('connect_error')
OnConnectError ==
    /\ connected' = FALSE
    /\ synced' = FALSE
    /\ Quiet
    /\ UNCHANGED <<remotePlayers, gameFoods>>

\* socket.on('connect_timeout')
OnConnectTimeout ==
    /\ connected' = FALSE
    /\ synced' = FALSE
    /\ Quiet
    /\ UNCHANGED <<remotePlayers, gameFoods>>

\* socket.on('gameState'): the first event of a connection
RECURSIVE RemotesOf(_)
RemotesOf(ds) ==
    IF Len(ds) = 0 THEN <<>> ELSE SetRemote(RemotesOf(SubSeq(ds, 1, Len(ds) - 1)), ds[Len(ds)])

OnGameState(gs) ==
    /\ connected /\ ~synced
    /\ synced' = TRUE
    /\ remotePlayers' = RemotesOf(gs.players)
    /\ gameFoods' = gs.foods
    /\ Quiet
    /\ UNCHANGED connected

\* socket.on('playerJoined')
OnPlayerJoined(d) ==
    /\ connected /\ synced
    /\ remotePlayers' = SetRemote(remotePlayers, d)
    /\ Quiet
    /\ UNCHANGED <<connected, synced, gameFoods>>

\* socket.on('playerLeft')
OnPlayerLeft(id) ==
    /\ connected /\ synced
    /\ remotePlayers' = SelectSeq(remotePlayers, LAMBDA r : r.id # id)
    /\ Quiet
    /\ UNCHANGED <<connected, synced, gameFoods>>

\* socket.on('playerMoved')
OnPlayerMoved(d) ==
    /\ connected /\ synced
    /\ LET i == RemoteIndex(remotePlayers, d.id) IN
       remotePlayers' = IF i = 0 THEN remotePlayers
                        ELSE [remotePlayers EXCEPT ![i] = createRemotePlayer(d)]
    /\ Quiet
    /\ UNCHANGED <<connected, synced, gameFoods>>

\* socket.on('playerDied')
OnPlayerDied(id) ==
    /\ connected /\ synced
    /\ LET i == RemoteIndex(remotePlayers, id) IN
       remotePlayers' = IF i = 0 THEN remotePlayers
                        ELSE [remotePlayers EXCEPT ![i].isAlive = FALSE]
    /\ Quiet
    /\ UNCHANGED <<connected, synced, gameFoods>>

\* socket.on('playerRespawned')
OnPlayerRespawned(d) ==
    /\ connected /\ synced
    /\ LET i == RemoteIndex(remotePlayers, d.id) IN
       remotePlayers' = IF i = 0 THEN remotePlayers
                        ELSE [remotePlayers EXCEPT ![i] = createRemotePlayer(d)]
    /\ Quiet
    /\ UNCHANGED <<connected, synced, gameFoods>>

\* socket.on('foodSpawned')
OnFoodSpawned(id) ==
    /\ connected /\ synced
    /\ id \notin {gameFoods[i] : i \in 1..Len(gameFoods)}
    /\ Len(gameFoods) < MaxGameFoods
    /\ gameFoods' = Append(gameFoods, id)
    /\ Quiet
    /\ UNCHANGED <<connected, synced, remotePlayers>>

\* socket.on('foodRemoved')
OnFoodRemoved(id) ==
    /\ connected /\ synced
    /\ gameFoods' = SelectSeq(gameFoods, LAMBDA f : f # id)
    /\ Quiet
    /\ UNCHANGED <<connected, synced, remotePlayers>>

\* one frame of Game.gameLoop, dt after the last one and its collision pass
\* dp later, with the spawns and the overlaps given
FrameStep(dt, dp, level, due, overPlayers, overEnemies, overLocal, overGame) ==
    /\ now + dt + dp <= MaxClock
    /\ level = 0 \/ (level \in EnemyLevels(player.sizeLevel) /\ Len(enemies) < MaxEnemies)
    /\ due => Len(localFoods) < MaxLocalFoods
    /\ \E g \in {gameLoop(TheGame, now + dt, now + dt + dp, level, due,
                          overPlayers, overEnemies, overLocal, overGame)} :
           /\ g.eats <= Min(MaxEats, MaxClientEats)
           /\ g.player.sizeLevel <= MaxLevel
           /\ g.nextLocalId <= MaxLocalIds + 1
           /\ player' = g.player
           /\ eats' = g.eats
           /\ gameScore' = g.score
           /\ remotePlayers' = g.remotePlayers
           /\ enemies' = g.enemies
           /\ localFoods' = g.localFoods
           /\ foodPool' = g.foodPool
           /\ nextLocalId' = g.nextLocalId
           /\ gameFoods' = g.gameFoods
           /\ lastUpdateTime' = g.lastUpdateTime
           /\ sent' = g.sent
           /\ prevEmitAt' = LastEmit(sent, prevEmitAt)
    /\ now' = now + dt + dp
    /\ UNCHANGED <<connected, synced, boostTicks, serverVars, otherVars>>

\* requestAnimationFrame: a frame of Game.gameLoop with whatever overlaps
\* the player after the frame's spawns
GameLoop(dt, dp, level, due) ==
    LET g0 == spawnFoods(spawnEnemies(TheGame, level), due) IN
    \E overPlayers \in SUBSET {g0.remotePlayers[i].id : i \in 1..Len(g0.remotePlayers)},
       overEnemies \in SUBSET (1..Len(g0.enemies)),
       overLocal \in SUBSET (1..Len(g0.localFoods)),
       overGame \in SUBSET (IF Len(g0.localFoods) > 0 THEN {} ELSE 1..Len(g0.gameFoods)) :
       FrameStep(dt, dp, level, due, overPlayers, overEnemies, overLocal, overGame)

\* after startGame(): connect() has been called and the socket is still
\* connecting, so spawnInitialFood() has run
ClientInit ==
    /\ connected = FALSE
    /\ synced = FALSE
    /\ remotePlayers = <<>>
    /\ enemies = <<>>
    /\ gameScore = 0
    /\ localFoods = [k \in 1..InitialLocalFoods |-> NoId]
    /\ foodPool = <<>>
    /\ nextLocalId = 1
    /\ gameFoods = <<>>
    /\ now = StartTime
    /\ lastUpdateTime = 0
    /\ sent = <<>>
    /\ prevEmitAt = NoEmit

ClientNext ==
    \/ OnConnect
    \/ OnDisconnect
    \/ OnConnectError
    \/ OnConnectTimeout
    \/ \E gs \in GameStatePayloads : OnGameState(gs)
    \/ \E d \in RemotePayloads : OnPlayerJoined(d)
    \/ \E id \in RemoteIds : OnPlayerLeft(id)
    \/ \E d \in RemotePayloads : OnPlayerMoved(d)
    \/ \E id \in RemoteIds : OnPlayerDied(id)
    \/ \E d \in RemotePayloads : OnPlayerRespawned(d)
    \/ \E id \in FoodIds : OnFoodSpawned(id)
    \/ \E id \in FoodIds : OnFoodRemoved(id)
    \/ \E dt \in FrameTimes, dp \in PassTimes, level \in 0..(MaxLevel + MaxEnemyOffset),
          due \in BOOLEAN : GameLoop(dt, dp, level, due)

(***************************************************************************)
(* js/ai-player.js: class AIPlayer, the behaviour machine of one live AI   *)
(* fish among the other players its update is given.  The positions are    *)
(* kept as each player's distance from the AI (calculateDistance).         *)
(***************************************************************************)
MaxOthers == 2

\* null, for targetPlayer and fleeingFrom
NoPlayer == 0

\* this.radius > player.radius * 1.05, in whole numbers: 20 r > 21 r'
aiCanEatAt99(fish, otherPlayer) == canEat(fish, otherPlayer)

aiCanEat(fish, otherPlayer) == 20 * fish.radius > 21 * otherPlayer.radius

aiCanBeEatenBy(fish, otherPlayer) == 20 * otherPlayer.radius > 21 * fish.radius

\* the other players as updateAIState meets them
OtherPlayers ==
    {[radius |-> Units(15), isAlive |-> TRUE, distance |-> 250],
     [radius |-> Units(29), isAlive |-> TRUE, distance |-> 150],
     [radius |-> Units(34), isAlive |-> TRUE, distance |-> 150],
     [radius |-> Units(34), isAlive |-> TRUE, distance |-> 250],
     [radius |-> Units(34), isAlive |-> FALSE, distance |-> 150]}

\* random(150, 300)
StateTimers == {150, 300}

\* Math.random() < 0.7
Rolls == {"wandering", "hunting"}

NewAIPlayer ==
    [radius |-> Units(30), state |-> "wandering", stateTimer |-> 0,
     targetPlayer |-> NoPlayer, fleeingFrom |-> NoPlayer]

IsPrey(fish, p) == 20 * fish.radius > 21 * p.radius

IsPredatorNever(fish, p) == FALSE

IsPredator(fish, p) == 20 * p.radius > 21 * fish.radius

\* the loop keeps the first of the nearest: a later one replaces it only
\* when strictly nearer
Nearest(ps, candidates) ==
    IF candidates = {} THEN NoPlayer
    ELSE CHOOSE i \in candidates :
             \A j \in candidates : \/ ps[i].distance < ps[j].distance
                                   \/ ps[i].distance = ps[j].distance /\ i <= j

updateAIState(fish, ps, roll, timer) ==
    LET ticked == [fish EXCEPT !.stateTimer = @ - 1]
        rolled == IF ticked.stateTimer <= 0
                  THEN [ticked EXCEPT !.state = roll, !.stateTimer = timer]
                  ELSE ticked
        nearestPrey == Nearest(ps, {i \in 1..Len(ps) :
                                       ps[i].isAlive /\ IsPrey(fish, ps[i])})
        nearestPredator == Nearest(ps, {i \in 1..Len(ps) :
                                           ps[i].isAlive /\ IsPredator(fish, ps[i])})
        fled == IF nearestPredator # NoPlayer /\ ps[nearestPredator].distance < 200
                THEN [rolled EXCEPT !.state = "fleeing",
                                    !.fleeingFrom = nearestPredator,
                                    !.stateTimer = 60]
                ELSE rolled
    IN  IF nearestPrey # NoPlayer /\ ps[nearestPrey].distance < 300
           /\ fled.state # "fleeing"
        THEN [fled EXCEPT !.state = "hunting", !.targetPlayer = nearestPrey,
                          !.stateTimer = 120]
        ELSE fled

\* only the 'fleeing' case changes the state; the rest steers
moveBasedOnState(fish, ps) ==
    IF fish.state = "fleeing"
       /\ ~(fish.fleeingFrom # NoPlayer /\ ps[fish.fleeingFrom].isAlive)
    THEN [fish EXCEPT !.state = "wandering"]
    ELSE fish

\* update(players, foods) of a live AI
AIUpdate(roll, timer) ==
    /\ ai' = moveBasedOnState(updateAIState(ai, others, roll, timer), others)
    /\ UNCHANGED <<others, serverVars, playerVars, clientVars, screenVars, poolVars, netVars>>

\* another player moves, grows, dies or respawns between two updates
OtherMoves(i, p) ==
    /\ others[i] # p
    /\ others' = [others EXCEPT ![i] = p]
    /\ UNCHANGED <<ai, serverVars, playerVars, clientVars, screenVars, poolVars, netVars>>

AIInit ==
    /\ ai = NewAIPlayer
    /\ others = [i \in 1..MaxOthers |->
                    [radius |-> Units(34), isAlive |-> FALSE, distance |-> 150]]

AINext ==
    \/ \E roll \in Rolls, timer \in StateTimers : AIUpdate(roll, timer)
    \/ \E i \in 1..MaxOthers, p \in OtherPlayers : OtherMoves(i, p)

(***************************************************************************)
(* Browsers and the server over socket.io connections: server.js and the  *)
(* MultiplayerManager of every page, with the messages in flight           *)
(***************************************************************************)
\* pages that have the game open
MaxBrowsers == 2
\* connections io() opens in one behaviour; socket.io's ids are never reused
MaxConnections == 2
\* packets in flight on one connection towards the page, and towards the server
MaxDown == 2
MaxUp == 1
\* food ids the server generates in one behaviour with browsers attached
MaxNetFoodIds == 1
\* playerUpdate packets one page sends
MaxNetUpdates == 1

Browsers == 1..MaxBrowsers
Connections == 1..MaxConnections
\* this.socket = null, and a connection io() has not made yet
NoSocket == 0

\* PlayerFish constructor and reset(): radius 15 at size level 1.  A player
\* reaches no second level within MaxNetFoodIds foods and MaxConnections
\* players eaten, so the radius stays
LocalPlayer == [radius |-> Units(15), sizeLevel |-> 1]

\* joinGame's payload of the local player
JoinData == CHOOSE d \in JoinPayloads : d.worldWidth = 0

\* sendPlayerUpdate's payload of the local player: it is sent by a living
\* player only
UpdateData ==
    [x |-> JoinData.x, y |-> JoinData.y, radius |-> JoinData.radius,
     angle |-> JoinData.angle, score |-> 0, sizeLevel |-> LocalPlayer.sizeLevel,
     isAlive |-> TRUE]

\* the snapshot as the wire carries it to createRemotePlayer
Told(p) ==
    [id |-> p.id, radius |-> Units(p.radius), sizeLevel |-> p.sizeLevel,
     isAlive |-> p.isAlive]

\* for (const playerId in gameState.players): the snapshots in key order
RECURSIVE InKeyOrder(_)
InKeyOrder(ps) ==
    IF DOMAIN ps = {} THEN <<>>
    ELSE LET k == CHOOSE x \in DOMAIN ps : \A y \in DOMAIN ps : x <= y IN
         <<Told(ps[k])>> \o InKeyOrder(Delete(ps, k))

Packet(ev, arg) == [ev |-> ev, arg |-> arg]

\* the connections the server holds open: 'connection' fired, 'disconnect' not
Live(ss) == {s \in Connections : ss[s].state \in {"open", "closing"}}

\* the connections a page has made and not lost
Owned(ss, c) == {s \in Connections : ss[s].owner = c /\ ss[s].state \in {"opening", "open"}}

\* the packet goes out on every connection of the set whose page is there
Down(ss, to, packet) ==
    [s \in Connections |->
        IF s \in to /\ ss[s].state = "open"
        THEN [ss[s] EXCEPT !.down = Append(@, packet)]
        ELSE ss[s]]

\* every connection of the set has room for n more packets
Room(ss, to, n) == \A s \in to : Len(ss[s].down) + n <= MaxDown

\* this.socket.emit(ev, arg) of a page
Up(ss, s, packet) == [ss EXCEPT ![s].up = Append(@, packet)]

\* the 'foodRemoved' handler leaving game.foods as it is
WithoutFoodKept(fs, foodId) == fs

\* the 'foodRemoved' handler on game.foods, a list of ids: findIndex, and
\* splice(foodIndex, 1) unless it gave -1
WithoutFood(fs, foodId) ==
    LET foodIndex == IF \E j \in 1..Len(fs) : fs[j] = foodId
                     THEN CHOOSE j \in 1..Len(fs) :
                            /\ fs[j] = foodId
                            /\ \A k \in 1..(j-1) : fs[k] # foodId
                     ELSE 0
    IN IF foodIndex = 0 THEN fs ELSE Splice(fs, foodIndex)

\* the socket.on handlers of setupEventListeners, on the MultiplayerManager
\* and Game fields b of the page: the fields after the packet
Heard(b, packet) ==
    CASE packet.ev = "connect" -> [b EXCEPT !.connected = TRUE]
      [] packet.ev = "gameState" ->
            [b EXCEPT !.players = RemotesOf(SelectSeq(packet.arg.players,
                                                      LAMBDA d : d.id # b.socket)),
                      !.foods = packet.arg.foods]
      [] packet.ev = "playerJoined" ->
            [b EXCEPT !.players = SetRemote(@, packet.arg)]
      [] packet.ev = "playerLeft" ->
            [b EXCEPT !.players = SelectSeq(@, LAMBDA r : r.id # packet.arg)]
      [] packet.ev = "playerMoved" ->
            LET i == RemoteIndex(b.players, packet.arg.id) IN
            IF i = 0 THEN b
            ELSE [b EXCEPT !.players[i] = createRemotePlayer(packet.arg)]
      [] packet.ev = "playerDied" ->
            LET i == RemoteIndex(b.players, packet.arg) IN
            IF i = 0 THEN b
            ELSE [b EXCEPT !.players[i].isAlive = FALSE]
      [] packet.ev = "foodSpawned" ->
            [b EXCEPT !.foods = Append(@, packet.arg)]
      [] packet.ev = "foodRemoved" ->
            [b EXCEPT !.foods = WithoutFood(@, packet.arg)]

\* what no step of the browsers and the server touches
NetQuiet == UNCHANGED <<serverVars, playerVars, clientVars, aiVars, screenVars, poolVars>>

\* Game.startGame() of page c: the player is made or reset, the loop runs and
\* multiplayer.connect() does this.socket = io(), a connection of its own
\* next to whatever connection the page has
NetStartGame(c) ==
    /\ ~browsers[c].isRunning
    /\ \E s \in Connections :
        /\ sockets[s].state = "none"
        /\ \A t \in Connections : sockets[t].state = "none" => s <= t
        /\ sockets' = [sockets EXCEPT ![s] = [owner |-> c, state |-> "opening",
                                              down |-> <<>>, up |-> <<>>]]
        /\ browsers' = [browsers EXCEPT ![c].socket = s, ![c].isAlive = TRUE,
                                        ![c].isRunning = TRUE]
    /\ UNCHANGED server
    /\ NetQuiet

\* io.on('connection') for the connection s: the count, startFoodSpawning,
\* socket.emit('gameState'); the page's 'connect' event precedes the packet
NetConnection(s) ==
    /\ sockets[s].state = "opening"
    /\ server' = [server EXCEPT !.connectedPlayers = @ + 1]
    /\ sockets' = [sockets EXCEPT ![s].state = "open",
                      ![s].down = <<Packet("connect", s),
                                    Packet("gameState",
                                           [players |-> InKeyOrder(server.players),
                                            foods |-> [i \in 1..Len(server.foods) |->
                                                          server.foods[i].id]])>>]
    /\ UNCHANGED browsers
    /\ NetQuiet

\* the page of connection s takes the next packet: its handler runs, and the
\* 'connect' handler goes on to joinGame(), which emits on this.socket
NetHeard(s) ==
    /\ sockets[s].state = "open"
    /\ sockets[s].down # <<>>
    /\ LET c == sockets[s].owner
           packet == Head(sockets[s].down)
           b == Heard(browsers[c], packet)
           rest == [sockets EXCEPT ![s].down = Tail(@)]
       IN /\ browsers' = [browsers EXCEPT ![c] = b]
          /\ IF packet.ev = "connect" /\ b.connected
             THEN /\ Len(sockets[b.socket].up) < MaxUp
                  /\ sockets' = Up(rest, b.socket, Packet("playerJoin", JoinData))
             ELSE sockets' = rest
    /\ UNCHANGED server
    /\ NetQuiet

\* the server takes the next packet of connection s: the socket.on handler
NetServed(s) ==
    /\ s \in Live(sockets)
    /\ sockets[s].up # <<>>
    /\ LET packet == Head(sockets[s].up)
           rest == [sockets EXCEPT ![s].up = Tail(@)]
           all == Live(sockets)
           known == s \in DOMAIN server.players
       IN CASE packet.ev = "playerJoin" ->
                 LET ps == [t \in DOMAIN server.players \cup {s} |->
                              IF t = s THEN JoinSnapshot(s, packet.arg)
                              ELSE server.players[t]]
                 IN /\ server' = [server EXCEPT !.players = ps]
                    /\ IF FanOut(server.connectedPlayers)
                       THEN /\ Room(sockets, all \ {s}, 1)
                            /\ sockets' = Down(rest, all \ {s},
                                               Packet("playerJoined", Told(ps[s])))
                       ELSE sockets' = rest
            [] packet.ev = "playerUpdate" ->
                 IF known
                 THEN /\ server' = [server EXCEPT
                                      !.players[s] = UpdateSnapshot(@, packet.arg)]
                      /\ IF FanOut(server.connectedPlayers)
                         THEN /\ Room(sockets, all \ {s}, 1)
                              /\ sockets' = Down(rest, all \ {s},
                                                 Packet("playerMoved",
                                                        Told(server'.players[s])))
                         ELSE sockets' = rest
                 ELSE /\ UNCHANGED server
                      /\ sockets' = rest
            [] packet.ev = "foodEaten" ->
                 LET foodIndex == FindIndex(server.foods, packet.arg) IN
                 IF foodIndex # 0
                 THEN /\ server' = [server EXCEPT !.foods = Splice(@, foodIndex)]
                      /\ Room(sockets, all, 1)
                      /\ sockets' = Down(rest, all, Packet("foodRemoved", packet.arg))
                 ELSE /\ UNCHANGED server
                      /\ sockets' = rest
            [] packet.ev = "playerEaten" ->
                 IF packet.arg \in DOMAIN server.players
                 THEN /\ server' = [server EXCEPT !.players[packet.arg].isAlive = FALSE]
                      /\ Room(sockets, all, 1)
                      /\ sockets' = Down(rest, all, Packet("playerDied", packet.arg))
                 ELSE /\ UNCHANGED server
                      /\ sockets' = rest
    /\ UNCHANGED browsers
    /\ NetQuiet

\* the setInterval callback of startFoodSpawning, which runs while a player
\* is connected
NetSpawnTick ==
    /\ StartFoodSpawning(server.connectedPlayers) # NoTimer
    /\ Len(server.foods) < MaxFoodItems
    /\ server.nextFoodId <= MaxNetFoodIds
    /\ server' = [server EXCEPT !.foods = Append(@, NewFood(server.nextFoodId)),
                                !.nextFoodId = @ + 1]
    /\ IF SpawnBroadcast(server.connectedPlayers)
       THEN /\ Room(sockets, Live(sockets), 1)
            /\ sockets' = Down(sockets, Live(sockets),
                               Packet("foodSpawned", server.nextFoodId))
       ELSE UNCHANGED sockets
    /\ UNCHANGED browsers
    /\ NetQuiet

\* the collision pass of page c finds the local player on the i-th food of
\* game.foods (game.foodManager.foods being empty): sendFoodEaten, splice
NetFoodPass(c, i) ==
    /\ browsers[c].isRunning /\ browsers[c].isAlive
    /\ i \in 1..Len(browsers[c].foods)
    /\ browsers' = [browsers EXCEPT ![c].foods = Splice(@, i)]
    /\ IF browsers[c].connected
       THEN /\ Len(sockets[browsers[c].socket].up) < MaxUp
            /\ sockets' = Up(sockets, browsers[c].socket,
                             Packet("foodEaten", browsers[c].foods[i]))
       ELSE UNCHANGED sockets
    /\ UNCHANGED server
    /\ NetQuiet

\* checkPlayerCollisions of page c finds the local player on the i-th player
\* of its table, alive and edible: it is marked dead and sendPlayerEaten runs
NetPlayerPass(c, i) ==
    /\ browsers[c].isRunning /\ browsers[c].isAlive /\ browsers[c].connected
    /\ i \in 1..Len(browsers[c].players)
    /\ browsers[c].players[i].isAlive
    /\ canEat(LocalPlayer, browsers[c].players[i])
    /\ browsers' = [browsers EXCEPT ![c].players[i].isAlive = FALSE]
    /\ Len(sockets[browsers[c].socket].up) < MaxUp
    /\ sockets' = Up(sockets, browsers[c].socket,
                     Packet("playerEaten", browsers[c].players[i].id))
    /\ UNCHANGED server
    /\ NetQuiet

\* a frame of page c reaches sendPlayerUpdate() with the interval over
NetPlayerUpdate(c) ==
    /\ browsers[c].isRunning /\ browsers[c].isAlive /\ browsers[c].connected
    /\ browsers[c].updates < MaxNetUpdates
    /\ Len(sockets[browsers[c].socket].up) < MaxUp
    /\ sockets' = Up(sockets, browsers[c].socket, Packet("playerUpdate", UpdateData))
    /\ browsers' = [browsers EXCEPT ![c].updates = @ + 1]
    /\ UNCHANGED server
    /\ NetQuiet

\* the local player of page c is eaten on its own screen (an enemy fish, or
\* the canBeEatenBy branch of checkPlayerCollisions): die(), then
\* handlePlayerDeath and gameOver() stop the loop; no socket is touched.  A
\* dead player's page sends nothing and its handlers go on as before, so the
\* deaths followed are those a new game can follow within MaxConnections
NetPlayerDies(c) ==
    /\ browsers[c].isRunning /\ browsers[c].isAlive
    /\ \E s \in Connections : sockets[s].state = "none"
    /\ browsers' = [browsers EXCEPT ![c].isAlive = FALSE, ![c].isRunning = FALSE]
    /\ UNCHANGED <<server, sockets>>
    /\ NetQuiet

\* a page before its first startGame
NewBrowser ==
    [socket |-> NoSocket, connected |-> FALSE, players |-> <<>>, foods |-> <<>>,
     isAlive |-> FALSE, isRunning |-> FALSE, updates |-> 0]

\* the page c is closed: its connections end, and what was on the way to it
\* is lost; another visitor may open it anew
NetPageCloses(c) ==
    /\ browsers[c].socket # NoSocket
    /\ browsers' = [browsers EXCEPT ![c] = NewBrowser]
    /\ sockets' = [s \in Connections |->
                     IF sockets[s].owner # c THEN sockets[s]
                     ELSE IF sockets[s].state = "opening"
                          THEN [sockets[s] EXCEPT !.state = "closed", !.up = <<>>]
                     ELSE IF sockets[s].state = "open"
                          THEN [sockets[s] EXCEPT !.state = "closing", !.down = <<>>]
                     ELSE sockets[s]]
    /\ UNCHANGED server
    /\ NetQuiet

\* socket.on('disconnect') for the connection s, after what it had sent
NetDisconnect(s) ==
    /\ sockets[s].state = "closing"
    /\ sockets[s].up = <<>>
    /\ LET cp == Max(0, server.connectedPlayers - 1)
           rest == [sockets EXCEPT ![s].state = "closed"]
       IN IF s \in DOMAIN server.players
          THEN /\ server' = [server EXCEPT !.connectedPlayers = cp,
                                           !.players = Delete(@, s)]
               /\ IF cp > 0
                  THEN /\ Room(rest, Live(rest), 1)
                       /\ sockets' = Down(rest, Live(rest), Packet("playerLeft", s))
                  ELSE sockets' = rest
          ELSE /\ server' = [server EXCEPT !.connectedPlayers = cp]
               /\ sockets' = rest
    /\ UNCHANGED browsers
    /\ NetQuiet

\* the server with no page open: earlier visitors have eaten the foods made
\* at load and have left, so every food the pages see comes from the interval
NetInit ==
    /\ server = [players |-> <<>>, foods |-> <<>>,
                 connectedPlayers |-> 0, nextFoodId |-> 1]
    /\ sockets = [s \in Connections |->
                    [owner |-> 0, state |-> "none", down |-> <<>>, up |-> <<>>]]
    /\ browsers = [c \in Browsers |-> NewBrowser]

NetNext ==
    \/ \E c \in Browsers : NetStartGame(c)
    \/ \E s \in Connections : NetConnection(s)
    \/ \E s \in Connections : NetHeard(s)
    \/ \E s \in Connections : NetServed(s)
    \/ NetSpawnTick
    \/ \E c \in Browsers, i \in 1..MaxFoodItems : NetFoodPass(c, i)
    \/ \E c \in Browsers, i \in 1..MaxConnections : NetPlayerPass(c, i)
    \/ \E c \in Browsers : NetPlayerUpdate(c)
    \/ \E c \in Browsers : NetPlayerDies(c)
    \/ \E c \in Browsers : NetPageCloses(c)
    \/ \E s \in Connections : NetDisconnect(s)

(***************************************************************************)
(* FoodManager and its ObjectPool, object by object (js/ai-player.js,      *)
(* js/object-pool.js)                                                      *)
(***************************************************************************)
\* FoodManager.maxFood (the game passes maxFoodItems = 100), scaled down
MaxPoolFood == 2
\* ObjectPool.get: this.expand(10), scaled down
ExpandBy == 2
\* Food.reset calls in one behaviour: each hands out a new id
MaxResets == 4

\* the ids the calls are given: those reset hands out, and none
PoolIds == {LocalId(n) : n \in 1..MaxResets} \cup {NoId}

\* the objects in a list
ObjectsOf(list) == {list[i].obj : i \in 1..Len(list)}

\* ObjectPool.expand(count): the factory's Foods are new objects with no id
ObjectPool_expand(m, count) ==
    [m EXCEPT !.pool = @ \o [k \in 1..count |-> [obj |-> m.made + k, id |-> NoId]],
              !.made = @ + count]

\* ObjectPool.get(): the pool it leaves; the object it returns is the last
\* of Filled(m).pool
Filled(m) == IF Len(m.pool) = 0 THEN ObjectPool_expand(m, ExpandBy) ELSE m
ObjectPool_get(m) ==
    [Filled(m) EXCEPT !.pool = SubSeq(@, 1, Len(@) - 1)]

\* ObjectPool.release(object): reset gives the object a new id
ObjectPool_release(m, object) ==
    [m EXCEPT !.pool = Append(@, [object EXCEPT !.id = LocalId(m.resets + 1)]),
              !.resets = @ + 1]

\* FoodManager.spawnFood(): the manager it leaves
FoodManager_spawnFood(m) ==
    IF Len(m.foods) >= MaxPoolFood THEN m
    ELSE [ObjectPool_get(m) EXCEPT
             !.foods = Append(@, Filled(m).pool[Len(Filled(m).pool)])]

\* FoodManager.removeFood(index), index counted from 1
FoodManager_removeFood(m, index) ==
    IF index >= 1 /\ index <= Len(m.foods)
    THEN ObjectPool_release([m EXCEPT !.foods = Splice(@, index)], m.foods[index])
    ELSE m

\* FoodManager.removeFoodById(id): the manager it leaves
FoodManager_removeFoodById(m, id) ==
    IF FindIndex(m.foods, id) # 0
    THEN FoodManager_removeFood(m, FindIndex(m.foods, id))
    ELSE m

\* the for-of loop of clear(): release of each food from the i-th on
RECURSIVE ReleaseAll(_, _)
ReleaseAll(m, i) ==
    IF i > Len(m.foods) THEN m
    ELSE ReleaseAll(ObjectPool_release(m, m.foods[i]), i + 1)

\* clear() without this.foods = []
FoodManager_clearKeepsFoods(m) == ReleaseAll(m, 1)

\* FoodManager.clear()
FoodManager_clear(m) == [ReleaseAll(m, 1) EXCEPT !.foods = <<>>]

\* a call and what it gave back
Called(m, call, arg, value) ==
    /\ foodManager' = m
    /\ returned' = [call |-> call, arg |-> arg, value |-> value]
    /\ UNCHANGED <<serverVars, playerVars, clientVars, aiVars, screenVars, netVars>>

SpawnFoodCall ==
    /\ foodManager.resets <= MaxResets
    /\ Called(FoodManager_spawnFood(foodManager), "spawnFood", NoId,
              IF Len(foodManager.foods) >= MaxPoolFood THEN "null" ELSE "food")

RemoveFoodCall(index) ==
    /\ foodManager.resets < MaxResets
    /\ Called(FoodManager_removeFood(foodManager, index), "removeFood", index,
              "undefined")

RemoveFoodByIdCall(id) ==
    /\ foodManager.resets < MaxResets
    /\ Called(FoodManager_removeFoodById(foodManager, id), "removeFoodById", id,
              IF FindIndex(foodManager.foods, id) # 0 THEN "true" ELSE "false")

ClearCall ==
    /\ foodManager.resets + Len(foodManager.foods) <= MaxResets
    /\ Called(FoodManager_clear(foodManager), "clear", NoId, "undefined")

\* new FoodManager(...): no food, a pool of maxFood / 2 objects (expand's
\* loop runs while i < count, so a half counts as one more)
PoolInit ==
    /\ foodManager = ObjectPool_expand([foods |-> <<>>, pool |-> <<>>,
                                        made |-> 0, resets |-> 0],
                                       (MaxPoolFood + 1) \div 2)
    /\ returned = [call |-> "new", arg |-> NoId, value |-> "undefined"]

PoolNext ==
    \/ SpawnFoodCall
    \/ \E index \in 0..(MaxPoolFood + 1) : RemoveFoodCall(index)
    \/ \E id \in PoolIds : RemoveFoodByIdCall(id)
    \/ ClearCall

(***************************************************************************)
(* The Game's screens and frame loop (js/water-effect.js, class Game, and  *)
(* showElement / hideElement of js/utils.js)                               *)
(***************************************************************************)
\* frame requests pending at once
MaxChains == 3
\* this.tutorialTotalSteps
tutorialTotalSteps == 6

\* the ids the handlers below look up
Elements == {"main-menu", "tutorial-overlay", "game-over", "game-canvas",
             "game-hud", "minimap-container", "progress-bar-container",
             "player-name", "level-display", "tutorial-step", "tutorial-prev",
             "tutorial-next", "tutorial-title", "tutorial-text"}

\* the ids a page can lack and still construct the Game and show its menu:
\* bindEventListeners looks up the buttons, showLoadingScreen the menu
Optional == Elements \ {"main-menu", "tutorial-prev", "tutorial-next"}

\* the whole page, or the page without one of the optional elements
Pages == {Elements} \cup {Elements \ {e} : e \in Optional}

\* the Game after its constructor and the loading screen: the menu shown,
\* the other screens hidden, no player, no frame requested
NewGame(firstTimePlayer) ==
    [hidden |-> {"tutorial-overlay", "game-over", "game-canvas", "game-hud",
                 "minimap-container", "progress-bar-container"},
     isRunning |-> FALSE,
     tutorialActive |-> FALSE,
     tutorialStep |-> 1,
     firstTimePlayer |-> firstTimePlayer,
     deathHandled |-> FALSE,
     player |-> "null",
     latest |-> FALSE,
     older |-> 0,
     timers |-> 0,
     threw |-> "none",
     last |-> "load"]

\* an exception has ended the handler: the statements after it do not run
Thrown(a) == a.threw # "none"
throw(a, what) == [a EXCEPT !.threw = what]
Unless(a, b) == IF Thrown(a) THEN a ELSE b

\* the start of a handler
Begin(a, handler) == [a EXCEPT !.threw = "none", !.last = handler]

\* document.getElementById(id).<property>: a TypeError when there is no such
\* element
useElement(a, id) ==
    Unless(a, IF id \in document THEN a ELSE throw(a, "getElementById"))

\* this.player.<property>: a TypeError while this.player is null
usePlayer(a) ==
    Unless(a, IF a.player = "null" THEN throw(a, "player") ELSE a)

\* showElement(id)
showElement(a, id) ==
    Unless(a, IF id \in document THEN [a EXCEPT !.hidden = @ \ {id}]
              ELSE throw(a, "showElement"))

\* hideElement(id)
hideElement(a, id) ==
    Unless(a, IF id \in document THEN [a EXCEPT !.hidden = @ \cup {id}]
              ELSE throw(a, "hideElement"))

\* a run of hideElement and showElement calls, in order
RECURSIVE showHide(_, _)
showHide(a, calls) ==
    IF calls = <<>> THEN a
    ELSE showHide(IF Head(calls)[1] = "show"
                  THEN showElement(a, Head(calls)[2])
                  ELSE hideElement(a, Head(calls)[2]),
                  Tail(calls))

\* the frame requests pending
Chains(a) == a.older + (IF a.latest THEN 1 ELSE 0)

\* this.animationFrameId = requestAnimationFrame(...): the id names the new
\* request; the request it named before stays pending
requestAnimationFrame(a) ==
    Unless(a, [a EXCEPT !.older = @ + (IF a.latest THEN 1 ELSE 0),
                        !.latest = TRUE])

\* cancelAnimationFrame(this.animationFrameId)
cancelAnimationFrame(a) == [a EXCEPT !.latest = FALSE]

\* handlePlayerDeath()
handlePlayerDeath(a) ==
    IF a.deathHandled THEN a
    ELSE [a EXCEPT !.deathHandled = TRUE, !.timers = @ + 1]

\* gameLoop() as a link of the chain of frames: its reading of
\* this.player.isAlive and its request for the next frame (ClientSpec has
\* the frame's simulation)
gameLoopChain(a) ==
    IF Thrown(a) \/ ~a.isRunning THEN a
    ELSE IF a.player = "null" THEN throw(a, "player")
    ELSE requestAnimationFrame(IF a.player = "alive" THEN a
                               ELSE handlePlayerDeath(a))

\* startGame(); stored: localStorage.setItem succeeds (it throws when the
\* storage is full or switched off)
startGame(a, stored) ==
    LET a1 == useElement(a, "player-name")
        a2 == showHide(a1, << <<"hide", "main-menu">>,
                              <<"hide", "tutorial-overlay">>,
                              <<"hide", "game-over">>,
                              <<"show", "game-canvas">>,
                              <<"show", "minimap-container">>,
                              <<"show", "progress-bar-container">> >>)
        a3 == Unless(a2, [a2 EXCEPT !.player = "alive",
                                    !.deathHandled = FALSE,
                                    !.isRunning = TRUE,
                                    !.tutorialActive = FALSE])
        a4 == gameLoopChain(a3)
    IN  IF Thrown(a4) \/ ~a4.firstTimePlayer THEN a4
        ELSE IF stored THEN [a4 EXCEPT !.firstTimePlayer = FALSE]
        ELSE throw(a4, "setItem")

\* updateTutorialContent()
updateTutorialContent(a) ==
    LET a1 == useElement(a, "tutorial-step")
        a2 == Unless(useElement(a1, "tutorial-prev"),
                     [a1 EXCEPT !.hidden = IF a1.tutorialStep > 1
                                           THEN @ \ {"tutorial-prev"}
                                           ELSE @ \cup {"tutorial-prev"}])
        a3 == useElement(useElement(a2, "tutorial-next"), "tutorial-title")
        text == useElement(a3, "tutorial-text")
    IN  CASE a.tutorialStep \in {1, 4} -> useElement(usePlayer(a3), "tutorial-text")
          \* spawnTutorialFish('special', 5) builds no enemy and sets its x
          [] a.tutorialStep = 3 -> Unless(text, throw(text, "spawnTutorialFish"))
          \* spawnTutorialFish('small', 3) reads this.player.sizeLevel
          [] a.tutorialStep = 5 -> usePlayer(text)
          [] OTHER -> text

\* startTutorial()
startTutorial(a) ==
    LET a1 == showHide(a, << <<"hide", "main-menu">>,
                             <<"show", "game-canvas">>,
                             <<"show", "game-hud">>,
                             <<"show", "minimap-container">>,
                             <<"show", "tutorial-overlay">> >>)
        a2 == Unless(a1, [a1 EXCEPT !.isRunning = TRUE,
                                    !.tutorialActive = TRUE,
                                    !.tutorialStep = 1])
        \* this.player.reset()
        a3 == Unless(usePlayer(a2), [a2 EXCEPT !.player = "alive"])
        a4 == useElement(a3, "level-display")
    IN  gameLoopChain(updateTutorialContent(a4))

\* nextTutorialStep()
nextTutorialStep(a, stored) ==
    IF a.tutorialStep < tutorialTotalSteps
    THEN updateTutorialContent([a EXCEPT !.tutorialStep = @ + 1])
    ELSE startGame(a, stored)

\* prevTutorialStep()
prevTutorialStep(a) ==
    IF a.tutorialStep > 1
    THEN updateTutorialContent([a EXCEPT !.tutorialStep = @ - 1])
    ELSE a

\* gameOver()
gameOver(a) ==
    showHide(cancelAnimationFrame([a EXCEPT !.isRunning = FALSE]),
             << <<"hide", "game-over">>,
                <<"hide", "game-canvas">>,
                <<"hide", "minimap-container">>,
                <<"hide", "progress-bar-container">>,
                <<"show", "game-over">> >>)

\* a button takes a click while the screen it is on is shown
Visible(id) == id \in document /\ id \notin app.hidden

\* the handlers change the Game and leave everything else alone
Handled(a) ==
    /\ Chains(a) <= MaxChains
    /\ app' = a
    /\ UNCHANGED <<document, serverVars, playerVars, clientVars, aiVars, poolVars, netVars>>

\* click on start-button
StartButton(stored) ==
    /\ Visible("main-menu")
    /\ Handled(IF app.firstTimePlayer
               THEN startTutorial(Begin(app, "startTutorial"))
               ELSE startGame(Begin(app, "startGame"), stored))

\* click on restart-button
RestartButton(stored) ==
    /\ Visible("game-over")
    /\ Handled(LET a == hideElement(Begin(app, "restart"), "game-over")
               IN  Unless(a, startGame(a, stored)))

\* click on menu-button
MenuButton ==
    /\ Visible("game-over")
    /\ Handled(showHide(Begin(app, "menu"), << <<"hide", "game-over">>,
                                              <<"show", "main-menu">> >>))

\* click on tutorial-next
TutorialNext(stored) ==
    /\ Visible("tutorial-overlay")
    /\ Handled(nextTutorialStep(Begin(app, IF app.tutorialStep < tutorialTotalSteps
                                           THEN "nextTutorialStep"
                                           ELSE "startGame"), stored))

\* click on tutorial-prev
TutorialPrev ==
    /\ Visible("tutorial-overlay")
    /\ Visible("tutorial-prev")
    /\ Handled(prevTutorialStep(Begin(app, "prevTutorialStep")))

\* the browser runs a pending frame request: the one animationFrameId
\* names, or an older one
AnimationFrame(which) ==
    /\ IF which = "latest" THEN app.latest ELSE app.older > 0
    /\ Handled(gameLoopChain(Begin(IF which = "latest"
                              THEN [app EXCEPT !.latest = FALSE]
                              ELSE [app EXCEPT !.older = @ - 1], "gameLoop")))

\* the player is eaten: die() from a collision or from the server's report
PlayerDies ==
    /\ app.isRunning
    /\ app.player = "alive"
    /\ Handled([app EXCEPT !.player = "dead"])

\* the timeout handlePlayerDeath set runs out
DeathTimeout ==
    /\ app.timers > 0
    /\ Handled(gameOver(Begin([app EXCEPT !.timers = @ - 1], "gameOver")))

\* the page as shipped, first visit
AppInit ==
    /\ document = Elements
    /\ app = NewGame(TRUE)

\* any of the pages, first visit or not
ScreenInit ==
    /\ ServerInit /\ PlayerInit /\ ClientInit /\ AIInit /\ PoolInit /\ NetInit
    /\ document \in Pages
    /\ app \in {NewGame(f) : f \in BOOLEAN}

ScreenNext ==
    \/ \E stored \in BOOLEAN : StartButton(stored)
    \/ \E stored \in BOOLEAN : RestartButton(stored)
    \/ MenuButton
    \/ \E stored \in BOOLEAN : TutorialNext(stored)
    \/ TutorialPrev
    \/ \E which \in {"latest", "older"} : AnimationFrame(which)
    \/ PlayerDies
    \/ DeathTimeout

(***************************************************************************)
(* Specifications                                                          *)
(***************************************************************************)
Init == ServerInit /\ PlayerInit /\ ClientInit /\ AIInit /\ AppInit /\ PoolInit /\ NetInit

Next == ServerNext

Spec == Init /\ [][Next]_vars

PlayerSpec == Init /\ [][PlayerNext]_vars

\* eatFish takes any number: remotePlayer.sizeLevel * 0.5 (part_000:515) is
\* negative for a remote player whose reported sizeLevel is -2
NegativeAmounts == {-1000}

EatAnything == \E a \in NegativeAmounts : EatFish(a)

EatSpec == Init /\ [][PlayerNext \/ EatAnything]_vars

ClientSpec == Init /\ [][ClientNext]_vars

AISpec == Init /\ [][AINext]_vars

GrowthSpec == Init /\ [][GrowthNext]_vars

\* one browser before the server has handled anything, or the server before
\* the browser has done anything: the two ends of a report
PredationNext ==
    \/ lastOp = "load" /\ ClientNext
    \/ ClientInit /\ PlayerInit /\ ServerNext

PredationSpec == Init /\ [][PredationNext]_vars

ScreenSpec == ScreenInit /\ [][ScreenNext]_vars

PoolSpec == Init /\ [][PoolNext]_vars

\* the browsers and the server together
NetSpec == Init /\ [][NetNext]_vars

\* the same with every packet delivered and every handler run in the end,
\* as socket.io and the event loops of node and of the pages see to, and with
\* the frames of a running game going on
NetFairness ==
    /\ \A s \in Connections :
         /\ WF_vars(NetConnection(s))
         /\ WF_vars(NetHeard(s) )
         /\ WF_vars(NetServed(s) )
         /\ WF_vars(NetDisconnect(s) )
    /\ \A c \in Browsers : WF_vars(NetPlayerUpdate(c) )

NetFairSpec == Init /\ [][NetNext]_vars /\ NetFairness

(***************************************************************************)
(* Claims about the server (checked under Spec)                            *)
(***************************************************************************)
\* the events of the claim about fan-out
FanOutEvents == {"playerJoined", "playerMoved", "playerDied", "playerRespawned",
                 "foodSpawned", "foodRemoved"}

\* C1: food consumption is at-most-once.  A foodEaten(id) report that finds
\* the id removes exactly that entry (|foods| drops by one, the others keep
\* their order) and foodRemoved(id) goes to every connection; a report that
\* does not find it changes nothing and emits nothing; over a whole
\* behaviour foodRemoved(id) is emitted at most once and a removed id never
\* comes back.
C1_FoodEatenStep(id) ==
    IF id \in FoodIdsOf(foods)
    THEN /\ Len(foods') = Len(foods) - 1
         /\ foods' = SelectSeq(foods, LAMBDA f : f.id # id)
         /\ removedCount[id] = 0
         /\ removedCount'[id] = 1
         /\ emitted' = {[to |-> t, ev |-> "foodRemoved", arg |-> id] : t \in conn}
    ELSE /\ foods' = foods
         /\ removedCount' = removedCount
         /\ emitted' = {}

C1_AtMostOnce ==
    \A id \in FoodIds :
        /\ removedCount[id] <= 1
        /\ removedCount[id] = 1 => id \notin FoodIdsOf(foods)

C1_ReportStep ==
    lastOp' = "foodEaten" =>
        \A id \in FoodIds :
            (\E s \in conn : FoodEaten(s, id)) =>
               /\ C1_FoodEatenStep(id)
               /\ UNCHANGED <<players, connectedPlayers, foodSpawnInterval>>

C1_FoodConsumedAtMostOnce == []C1_AtMostOnce /\ [][C1_ReportStep]_vars

\* every food id was spawned and consumed, and the last report found nothing:
\* it was a repeated report for a consumed id
C1_Witness ==
    /\ lastOp = "foodEaten"
    /\ emitted = {}
    /\ foods = <<>>
    /\ \A id \in FoodIds : removedCount[id] = 1

\* C2: between handlers, when every open connection has sent playerJoin,
\* connectedPlayers is the number of registered players.
C2_CountMatchesRegistry ==
    (\A s \in conn : s \in DOMAIN players)
        => connectedPlayers = Cardinality(DOMAIN players)

\* two connections joined, one of them left: one player, one snapshot
C2_Witness ==
    /\ lastOp = "disconnect"
    /\ connectedPlayers = 1
    /\ DOMAIN players = conn
    /\ \E e \in emitted : e.ev = "playerLeft"

\* C3: after every handler the spawn timer matches connectedPlayers: none
\* at 0, 2000 ms at 1, 500 ms at 2 or more; connectedPlayers counts the open
\* connections, so connect, connect, disconnect gives 1, 2 (500 ms), 1 (2000 ms).
C3_TimerMatchesCount ==
    /\ connectedPlayers = Cardinality(conn)
    /\ connectedPlayers = 0 => foodSpawnInterval = NoTimer
    /\ connectedPlayers = 1 => foodSpawnInterval = 2000
    /\ connectedPlayers >= 2 => foodSpawnInterval = 500

\* a disconnect brought the count from 2 back to 1 and the period to 2000 ms
C3_Witness ==
    /\ lastOp = "disconnect"
    /\ connectedPlayers = 1
    /\ foodSpawnInterval = 2000
    /\ \E e \in emitted : e.ev = "playerLeft"

\* C4: playerJoined, playerMoved, playerDied, playerRespawned, foodSpawned
\* and foodRemoved are emitted only while connectedPlayers > 1.
C4_FanOutOnlyWithPeers ==
    \A e \in emitted : e.ev \in FanOutEvents => connectedPlayers > 1

\* C5: suppressing fan-out never suppresses state.  While one connection is
\* open a spawn tick below the cap still appends the food and a registered
\* player's playerUpdate / playerRespawn is still stored; the gameState
\* sent to a new connection is the whole current state; and with two or
\* more connections a spawned food is emitted to every one of them.
C5_Step ==
    /\ (lastOp' = "spawnTick" /\ connectedPlayers = 1 /\ Len(foods) < MaxFoodItems
          /\ SpawnTick) =>
          /\ Len(foods') = Len(foods) + 1
          /\ \A i \in 1..Len(foods) : foods'[i] = foods[i]
          /\ foods'[Len(foods')].id \notin FoodIdsOf(foods)
    /\ \A s \in DOMAIN players : \A d \in UpdatePayloads :
          (lastOp' = "playerUpdate" /\ connectedPlayers = 1 /\ PlayerUpdate(s, d)) =>
             /\ players'[s].x = d.x /\ players'[s].y = d.y
             /\ players'[s].radius = d.radius /\ players'[s].angle = d.angle
             /\ players'[s].score = d.score
             /\ players'[s].sizeLevel = d.sizeLevel
             /\ players'[s].isAlive = d.isAlive
    /\ \A s \in DOMAIN players : \A d \in RespawnPayloads :
          (lastOp' = "playerRespawn" /\ connectedPlayers = 1 /\ PlayerRespawn(s, d)) =>
             /\ players'[s].x = d.x /\ players'[s].y = d.y
             /\ players'[s].radius = d.radius /\ players'[s].score = d.score
             /\ players'[s].sizeLevel = d.sizeLevel
             /\ players'[s].isAlive
    /\ \A s \in Sockets \ conn :
          (lastOp' = "connection" /\ Connection(s)) =>
             \E e \in emitted' :
                /\ e.to = s /\ e.ev = "gameState"
                /\ e.arg.players = players /\ e.arg.foods = foods
    /\ (lastOp' = "spawnTick" /\ connectedPlayers >= 2 /\ Len(foods') > Len(foods)
          /\ SpawnTick) =>
          \A t \in conn :
             [to |-> t, ev |-> "foodSpawned", arg |-> foods'[Len(foods')]] \in emitted'

C5_StateKeptWhileAlone == [][C5_Step]_vars

\* a second connection has just received a gameState that holds a food
\* spawned after start-up and the first player's reported snapshot
C5_Witness ==
    /\ lastOp = "connection"
    /\ connectedPlayers = 2
    /\ \E e \in emitted :
          /\ e.ev = "gameState"
          /\ \E i \in 1..Len(e.arg.foods) : e.arg.foods[i].id > InitialFood
          /\ \E q \in DOMAIN e.arg.players : e.arg.players[q].score > 0

(***************************************************************************)
(* Claims about the local player (checked under PlayerSpec, the one about  *)
(* negative amounts under EatSpec)                                         *)
(***************************************************************************)
\* the canonical growth curve: 15 at level 1, plus 5 + floor(i/2)*2 for
\* every level i = 2..sizeLevel
RECURSIVE radiusForLevel(_)
radiusForLevel(sizeLevel) ==
    IF sizeLevel <= 1 THEN Units(15)
    ELSE radiusForLevel(sizeLevel - 1) + Units(5 + (sizeLevel \div 2) * 2)

\* p after its running growth animation has played to the end
RECURSIVE Settle(_)
Settle(p) == IF p.growthAnimation.active THEN Settle(updateGrowthAnimation(p)) ELSE p

\* k level-ups, each one animated to the end
RECURSIVE LevelUps(_, _)
LevelUps(p, k) == IF k = 0 THEN p ELSE LevelUps(Settle(grow(p)), k - 1)

\* k shrinks, each one animated to the end
RECURSIVE Shrinks(_, _)
Shrinks(p, k) == IF k = 0 THEN p ELSE Shrinks(Settle(shrink(p)), k - 1)

\* round trips of 1..MaxTrip levels are looked at
MaxTrip == 2

\* a growthProgress value within [0, 1]
InUnitInterval(f) == f.den > 0 /\ 0 <= f.num /\ f.num <= f.den

\* a >= b for two growthProgress values
FracGeq(a, b) == a.num * b.den >= b.num * a.den

\* C6: every component yields the same radius for the same level: for each
\* level the local player has reached, the radius it gets by levelling up
\* from level 1, the remote-player reconstruction, the AIPlayer radius and
\* the EnemyFish radius are equal, and the radius grows strictly with the level.
C6_OneRadiusPerLevel ==
    \A lvl \in 1..player.sizeLevel :
        LET r == LevelUps(NewPlayer, lvl - 1).radius IN
        /\ calculateRadiusFromSizeLevel(0, lvl) = r
        /\ AIPlayerRadius(lvl) = r
        /\ EnemyFishRadius(lvl) = r
        /\ lvl > 1 => LevelUps(NewPlayer, lvl - 2).radius < r

\* C7: in every reachable state the local player's radius is the canonical
\* curve's radius for its sizeLevel.
C7_RadiusIsCurveOfLevel ==
    player.radius = radiusForLevel(player.sizeLevel)

\* C8: from any reachable player state, k level-ups followed by k shrinks
\* give back the sizeLevel, the radius and the fishNeededToGrow it started with.
C8_RoundTrip ==
    LET p0 == Settle(player) IN
    \A k \in 1..MaxTrip :
        LET q == Shrinks(LevelUps(p0, k), k) IN
        /\ q.sizeLevel = p0.sizeLevel
        /\ q.radius = p0.radius
        /\ q.fishNeededToGrow = p0.fishNeededToGrow

\* C9: after every operation sizeLevel >= 1 and growthProgress is within
\* [0, 1]; a boost frame of a level-1 player with nothing eaten leaves
\* sizeLevel = 1 and growthProgress = 0.
C9_Floor ==
    /\ player.sizeLevel >= 1
    /\ InUnitInterval(player.growthProgress)

C9_FloorStep ==
    (Update /\ player.boosting /\ player.sizeLevel = 1 /\ player.fishEaten = 0) =>
        /\ player'.sizeLevel = 1
        /\ player'.fishEaten = 0
        /\ player'.growthProgress.num = 0

C9_BoostNeverBelowFloor == []C9_Floor /\ [][C9_FloorStep]_vars

\* one food item was eaten at level 1 and boost drained it to nothing, frame
\* by frame; the player is at level 1 with no progress and boost is off
C9_Witness ==
    /\ player.isAlive
    /\ player.sizeLevel = 1
    /\ player.fishEaten = 0
    /\ ~player.boosting
    /\ eats = 1
    /\ boostTicks >= 20

\* C10: eatFish with a negative amount lowers neither fishEaten nor
\* growthProgress nor score.
C10_NegativeEatIsNoDrain ==
    [][\A a \in NegativeAmounts :
          EatFish(a) =>
             /\ player'.fishEaten >= player.fishEaten
             /\ player'.score >= player.score
             /\ FracGeq(player'.growthProgress, player.growthProgress)]_vars

(***************************************************************************)
(* Further claims about the server (checked under Spec)                    *)
(***************************************************************************)
\* a handler run that left gameState, the timer and the connections as they
\* were and emitted nothing
ServerNoOp ==
    /\ UNCHANGED <<players, foods, worldWidth, worldHeight, connectedPlayers,
                   foodSpawnInterval, conn>>
    /\ emitted' = {}

\* C11: referential errors are no-ops.  foodEaten for an id not in foods,
\* playerEaten for an id not in players, and playerUpdate / playerRespawn
\* from a connection without a registered snapshot leave gameState
\* unchanged and emit nothing.
C11_Step ==
    /\ lastOp' = "foodEaten" =>
          \A id \in FoodIds \ FoodIdsOf(foods) :
             (\E s \in conn : FoodEaten(s, id)) => ServerNoOp
    /\ lastOp' = "playerEaten" =>
          \A id \in Sockets \ DOMAIN players :
             (\E s \in conn : PlayerEaten(s, id)) => ServerNoOp
    /\ lastOp' = "playerUpdate" =>
          \A s \in conn \ DOMAIN players : \A d \in UpdatePayloads :
             PlayerUpdate(s, d) => ServerNoOp
    /\ lastOp' = "playerRespawn" =>
          \A s \in conn \ DOMAIN players : \A d \in RespawnPayloads :
             PlayerRespawn(s, d) => ServerNoOp

C11_ReferentialErrorsAreNoOps == [][C11_Step]_vars

\* with a player registered and food present, a playerEaten report named an
\* id that is not registered: nothing was emitted
C11_Witness ==
    /\ lastOp = "playerEaten"
    /\ emitted = {}
    /\ DOMAIN players # {}
    /\ DOMAIN players # Sockets
    /\ foods # <<>>

\* the snapshot fields playerUpdate never writes
IdentityFields == {"id", "name", "color", "eyeColor", "pupilColor"}

\* C12: a playerUpdate from a registered connection overwrites exactly that
\* connection's x, y, radius, angle, score, sizeLevel and isAlive with the
\* payload (whatever was stored before) and leaves its other fields, every
\* other snapshot, the registered ids, foods, the world size,
\* connectedPlayers and the spawn timer unchanged.
C12_Step ==
    lastOp' = "playerUpdate" =>
        \A s \in conn \cap DOMAIN players : \A d \in UpdatePayloads :
            PlayerUpdate(s, d) =>
               /\ DOMAIN players' = DOMAIN players
               /\ \A f \in DOMAIN d : players'[s][f] = d[f]
               /\ \A f \in IdentityFields : players'[s][f] = players[s][f]
               /\ DOMAIN players'[s] = DOMAIN d \cup IdentityFields
               /\ \A t \in DOMAIN players \ {s} : players'[t] = players[t]
               /\ UNCHANGED <<foods, worldWidth, worldHeight, connectedPlayers,
                              foodSpawnInterval, conn>>

C12_UpdateWritesOwnSnapshotOnly == [][C12_Step]_vars

\* two players are registered; the last handler was a playerUpdate that
\* replaced one snapshot and left the other, joined and marked dead, as it was
C12_Witness ==
    /\ lastOp = "playerUpdate"
    /\ \E s, t \in DOMAIN players :
          /\ s # t
          /\ players[s].score > 0 /\ players[s].isAlive
          /\ players[t].score = 0 /\ ~players[t].isAlive
          /\ \E e \in emitted : e.ev = "playerMoved" /\ e.arg.id = s

\* C13: each connection is sent gameState exactly once and before any
\* other event, and the payload is the whole state of that moment: every
\* registered snapshot and every food present.
C13_FirstAndOnce ==
    \A s \in conn :
        /\ received[s].first = "gameState"
        /\ received[s].gameStates = 1

C13_Step ==
    lastOp' = "connection" =>
        \A s \in Sockets \ conn :
            Connection(s) =>
               \E e \in emitted' :
                  /\ e.to = s /\ e.ev = "gameState"
                  /\ e.arg.players = players' /\ e.arg.foods = foods'
                  /\ e.arg.worldWidth = worldWidth'
                  /\ e.arg.worldHeight = worldHeight'
                  /\ e.arg.connectedPlayers = connectedPlayers'

C13_GameStateFirstOnceAndFull == []C13_FirstAndOnce /\ [][C13_Step]_vars

\* two connections are open and have had their gameState; the last handler
\* was a spawn tick whose foodSpawned went to both of them
C13_Witness ==
    /\ lastOp = "spawnTick"
    /\ Cardinality(conn) = 2
    /\ \A s \in conn :
          /\ received[s].first = "gameState"
          /\ \E e \in emitted : e.to = s /\ e.ev = "foodSpawned"

(***************************************************************************)
(* Claims about the client                                                 *)
(***************************************************************************)
\* a frame of the game loop: the only step that moves the clock
Frame == now' # now

\* the positions in msgs of the events named ev
Sent(msgs, ev) == {i \in 1..Len(msgs) : msgs[i].ev = ev}

\* the foods the player ate in this frame: every removeFood hands out an id,
\* and only the collision pass shortens game.foods within a frame
LocalFoodsEaten == nextLocalId' - nextLocalId
GameFoodsEaten == Len(gameFoods) - Len(gameFoods')

\* C14: when the player of a connected client eats a food item, the item
\* leaves the client's collection and a foodEaten report with an id the
\* server can know (one of the server's food ids) goes out for it.
C14_Step ==
    (Frame /\ connected /\ LocalFoodsEaten + GameFoodsEaten > 0)
        => Cardinality({i \in Sent(sent', "foodEaten") : sent'[i].arg.id \in FoodIds})
               = LocalFoodsEaten + GameFoodsEaten

C14_EatenFoodIsReported == [][C14_Step]_vars

\* the fish around the player whose radius is exactly the player's
EqualRemotes ==
    {remotePlayers[i].id : i \in {j \in 1..Len(remotePlayers) :
        remotePlayers[j].isAlive /\ remotePlayers[j].radius = player.radius}}
EqualEnemies == {i \in 1..Len(enemies) : enemies[i].radius = player.radius}

\* a frame without spawns in which the fish of the player's own radius, and
\* nothing else, overlap the living player
EqualOverlapFrame ==
    /\ player.isAlive
    /\ (connected /\ EqualRemotes # {}) \/ EqualEnemies # {}
    /\ \E dt \in FrameTimes, dp \in PassTimes :
          FrameStep(dt, dp, 0, FALSE, EqualRemotes, EqualEnemies, {}, {})

\* C15: when the player overlaps an enemy or a remote player of exactly its
\* own radius, neither is consumed: the frame changes no alive flag, score,
\* growth or list of fish and reports no eating.
C15_Step ==
    EqualOverlapFrame =>
        /\ player'.isAlive = player.isAlive
        /\ gameScore' = gameScore
        /\ player'.fishEaten = player.fishEaten
        /\ player'.sizeLevel = player.sizeLevel
        /\ enemies' = enemies
        /\ remotePlayers' = remotePlayers
        /\ Sent(sent', "playerEaten") = {}
        /\ Sent(sent', "foodEaten") = {}

C15_EqualSizePassThrough == [][C15_Step]_vars

\* the living remote players the player cannot eat: any of them kills it
Killers ==
    {remotePlayers[i].id : i \in {j \in 1..Len(remotePlayers) :
        remotePlayers[j].isAlive /\ ~canEat(player, remotePlayers[j])}}
DeadRemotes ==
    {remotePlayers[i].id : i \in {j \in 1..Len(remotePlayers) :
        ~remotePlayers[j].isAlive}}

\* a frame without spawns whose remote-player pass meets only the fish given
\* while the enemies and foods given overlap the player too
PassWith(overPlayers, overEnemies, overLocal, overGame) ==
    \E dt \in FrameTimes, dp \in PassTimes :
        FrameStep(dt, dp, 0, FALSE, overPlayers, overEnemies, overLocal, overGame)

\* the player gained nothing, consumed nothing and reported no eating
NoOutcome ==
    /\ gameScore' = gameScore
    /\ player'.fishEaten = player.fishEaten
    /\ player'.score = player.score
    /\ enemies' = enemies
    /\ remotePlayers' = remotePlayers
    /\ localFoods' = localFoods
    /\ gameFoods' = gameFoods
    /\ Sent(sent', "playerEaten") = {}
    /\ Sent(sent', "foodEaten") = {}

\* C16: a fish that is not alive takes part in no collision outcome. Dead
\* remote players are neither eaten nor do they kill; a dead local player
\* gains and consumes nothing and reports no eating, and neither does a
\* player in what is left of the pass in which a remote player killed it.
C16_Step ==
    /\ (Frame /\ ~player.isAlive) => (NoOutcome /\ ~player'.isAlive)
    /\ (player.isAlive /\ connected /\ DeadRemotes # {}
            /\ PassWith(DeadRemotes, {}, {}, {}))
        => (NoOutcome /\ player'.isAlive)
    /\ \A overEnemies \in SUBSET (1..Len(enemies)),
          overLocal \in SUBSET (1..Len(localFoods)),
          overGame \in SUBSET (1..Len(gameFoods)) :
          (player.isAlive /\ connected /\ Killers # {}
              /\ PassWith(Killers, overEnemies, overLocal, overGame))
            => (NoOutcome /\ ~player'.isAlive)

C16_DeadTakeNoPart == [][C16_Step]_vars

\* the time of the playerUpdate emitted before the i-th message of sent
PrevEmit(i) ==
    LET before == {j \in Sent(sent, "playerUpdate") : j < i} IN
    IF before = {} THEN prevEmitAt
    ELSE sent[CHOOSE j \in before : \A k \in before : k <= j].at

\* C17: any two consecutive playerUpdate emissions of a client are at least
\* updateInterval apart, whether gameLoop or updateScore called
\* sendPlayerUpdate.
C17_RateLimited ==
    \A i \in Sent(sent, "playerUpdate") :
        PrevEmit(i) # NoEmit => sent[i].at - PrevEmit(i) >= updateInterval

\* a playerUpdate that updateScore sent (it carries the points for the remote
\* player eaten in the same frame, not yet what eatFish added) after an
\* earlier playerUpdate
C17_Witness ==
    /\ prevEmitAt # NoEmit
    /\ Sent(sent, "playerEaten") # {}
    /\ \E i \in Sent(sent, "playerUpdate") :
          sent[i].arg.score >= 50 /\ gameScore > sent[i].arg.score

\* the interval the project's notes give for a client that knows of no other
\* player
singlePlayerUpdateInterval == 200

\* the notes' currentUpdateInterval: otherPlayersCount > 0 ? updateInterval
\* : singlePlayerUpdateInterval
currentUpdateInterval ==
    IF Len(remotePlayers) > 0 THEN updateInterval ELSE singlePlayerUpdateInterval

\* C18: the reporting interval adapts to the presence of peers: playerUpdate
\* goes out at most every 50 ms while the client knows another player and at
\* most every 200 ms while it knows none.
C18_AdaptiveInterval ==
    \A i \in Sent(sent, "playerUpdate") :
        PrevEmit(i) # NoEmit => sent[i].at - PrevEmit(i) >= currentUpdateInterval

\* a frame of a client that is not connected, in which no remote player
\* overlaps the player
FrameWithoutRemotes ==
    \E dt \in FrameTimes, dp \in PassTimes, level \in 0..(MaxLevel + MaxEnemyOffset),
       due \in BOOLEAN, overEnemies \in SUBSET (1..MaxEnemies),
       overLocal \in SUBSET (1..MaxLocalFoods), overGame \in SUBSET (1..MaxGameFoods) :
       FrameStep(dt, dp, level, due, {}, overEnemies, overLocal, overGame)

\* C19: a disconnect, connect_error or connect_timeout leaves connected
\* false, and only a connect event sets it again; while it is false the
\* client emits nothing and its frames are those of a game without remote
\* players; the game loop can still run its next frame.
C19_Offline ==
    /\ ~connected => sent = <<>>
    /\ \A dt \in FrameTimes :
          (~connected /\ now + dt <= MaxClock) => ENABLED GameLoop(dt, 0, 0, FALSE)

C19_Step ==
    /\ (OnDisconnect \/ OnConnectError \/ OnConnectTimeout) => ~connected'
    /\ (~connected /\ connected') => OnConnect
    /\ (~connected /\ Frame) => (~connected' /\ FrameWithoutRemotes)

C19_FailureDegradesToSinglePlayer == []C19_Offline /\ [][C19_Step]_vars

\* the client had been connected and sent a playerUpdate; now it is not
\* connected and its living player has been through a frame that emitted
\* nothing although it began updateInterval or more after that update
C19_Witness ==
    /\ ~connected
    /\ remotePlayers # <<>>
    /\ lastUpdateTime # 0
    /\ \A dp \in PassTimes : now - dp - lastUpdateTime >= updateInterval
    /\ player.isAlive
    /\ eats > 0
    /\ sent = <<>>

(***************************************************************************)
(* A further claim about the local player                                  *)
(***************************************************************************)
\* a new player after one and after two level-ups, each let run to the end
\* of its animation
AfterOneLevelUp == LevelUps(NewPlayer, 1)
AfterTwoLevelUps == LevelUps(NewPlayer, 2)

\* C20: from a fresh player (level 1, radius 15) one completed level-up
\* gives radius 22 and two give 29: a level-up to level i, let run to the end
\* of its animation, adds exactly 5 + floor(i / 2) * 2 to the radius.
C20_Completed ==
    /\ NewPlayer.sizeLevel = 1 /\ NewPlayer.radius = Units(15)
    /\ AfterOneLevelUp.sizeLevel = 2 /\ AfterOneLevelUp.radius = Units(22)
    /\ AfterTwoLevelUps.sizeLevel = 3 /\ AfterTwoLevelUps.radius = Units(29)
    /\ (player.growthAnimation.active
            /\ player.growthAnimation.targetRadius > player.growthAnimation.startRadius)
        => player.growthAnimation.targetRadius - player.growthAnimation.startRadius
               = Units(5 + (player.sizeLevel \div 2) * 2)

C20_Step ==
    /\ player'.sizeLevel = player.sizeLevel + 1
        => /\ player'.growthAnimation.active
           /\ player'.growthAnimation.targetRadius
                  = player.radius + Units(5 + (player'.sizeLevel \div 2) * 2)
    /\ (player.growthAnimation.active /\ ~player'.growthAnimation.active
            /\ player'.growthAnimation.timer = player.growthAnimation.timer + 1
            /\ player'.sizeLevel = player.sizeLevel)
        => player'.radius = player.growthAnimation.targetRadius

C20_CompletedLevelUpsAdd == []C20_Completed /\ [][C20_Step]_vars

\* a player that ate twice since its reset, levelled up both times and is
\* at rest at level 3 with radius 29
C20_Witness ==
    /\ eats = 2
    /\ player.sizeLevel = 3
    /\ ~player.growthAnimation.active
    /\ player.radius = Units(29)

(***************************************************************************)
(* Claims about the AI player (checked under AISpec)                       *)
(***************************************************************************)
\* a live player able to eat the AI is within 200 units
PredatorWithin200 ==
    \E i \in 1..Len(others) : /\ others[i].isAlive
                              /\ others[i].radius * 20 > ai.radius * 21
                              /\ others[i].distance < 200

\* a live player the AI is able to eat is within 300 units
PreyWithin300 ==
    \E i \in 1..Len(others) : /\ others[i].isAlive
                              /\ ai.radius * 20 > others[i].radius * 21
                              /\ others[i].distance < 300

\* the state the proximity rules meet: the one before the call, or the
\* re-rolled one when the timer runs out in this call
NotFleeingAfterRoll == ai.state # "fleeing" \/ ai.stateTimer <= 1

AIUpdated == others' = others /\ ai' # ai

\* fleeing overrides hunting, and hunting from proximity needs edible prey
\* within 300 units and a state other than 'fleeing'
C29_Proximity ==
    AIUpdated =>
        /\ PredatorWithin200 => ai'.state = "fleeing"
        /\ (PreyWithin300 /\ ~PredatorWithin200 /\ NotFleeingAfterRoll)
               => ai'.state = "hunting"
        /\ (ai'.state = "hunting" /\ ai.state # "hunting" /\ ai.stateTimer > 1)
               => PreyWithin300 /\ ~PredatorWithin200

\* the timer as first stated: whenever it is set rather than counted down,
\* it is set to 150-300 ticks for wandering and hunting and to 60 for fleeing
C29_OriginalTimer ==
    (AIUpdated /\ ai'.stateTimer # ai.stateTimer - 1) =>
        /\ ai'.state = "fleeing" => ai'.stateTimer = 60
        /\ ai'.state \in {"wandering", "hunting"} => ai'.stateTimer \in 150..300

\* C29 as first stated: in the AI behaviour machine fleeing overrides hunting
\* (a live predator within 200 units makes the state 'fleeing' even when edible
\* prey is within 300 units), the state becomes 'hunting' from proximity only
\* when edible prey is within 300 units and the state is not 'fleeing', and the
\* state timer is re-rolled to 150-300 ticks for wandering/hunting and to 60
\* ticks while fleeing
C29_FleeingOverridesHunting == [][C29_Proximity /\ C29_OriginalTimer]_vars

\* the timer as the code sets it: 60 with a predator near, else 120 when the
\* AI hunts from proximity, else 150-300 when it ran out, else one less
C29_Timer ==
    AIUpdated =>
        IF PredatorWithin200 THEN ai'.stateTimer = 60
        ELSE IF PreyWithin300 /\ NotFleeingAfterRoll THEN ai'.stateTimer = 120
        ELSE IF ai.stateTimer <= 1
             THEN /\ ai'.stateTimer \in 150..300
                  /\ ai'.state \in {"wandering", "hunting"}
        ELSE ai'.stateTimer = ai.stateTimer - 1

\* C29 (amended): fleeing overrides hunting and hunting from proximity needs
\* edible prey within 300 units and a state other than 'fleeing', as first
\* stated; the state timer is set to 60 ticks by every update with a predator
\* within 200 units, to 120 ticks by every update that hunts from proximity,
\* and to 150-300 ticks only when it runs out with neither of the two
C29_FleeingOverridesHuntingTimer120 == [][C29_Proximity /\ C29_Timer]_vars

\* the AI fled from a predator while edible prey was within 300 units
C29_Witness ==
    /\ PredatorWithin200
    /\ PreyWithin300
    /\ ai.state = "fleeing"
    /\ ai.stateTimer = 60
    /\ ai.fleeingFrom # NoPlayer
    /\ ai.targetPlayer # NoPlayer

\* every fish of the state: the AI, the players around it, the local player
Fishes ==
    {[radius |-> ai.radius], [radius |-> player.radius]}
        \cup {[radius |-> others[i].radius] : i \in 1..Len(others)}

\* a > b * 1.05 and a > b * 0.99, by the difference of the two radii
Above105(a, b) == 20 * (a - b) > b

Above99(a, b) == 100 * (b - a) < b

EatenAsStated(amount) ==
    LET total == player.fishEaten + amount
        reached == total >= player.fishNeededToGrow * 1000
    IN  /\ player'.score * 1000 = player.score * 1000 + amount * 10 * player.sizeLevel
        /\ reached => /\ player'.sizeLevel = player.sizeLevel + 1
                      /\ player'.fishEaten = 0
                      /\ player'.growthProgress.num = 0
        /\ ~reached => /\ player'.sizeLevel = player.sizeLevel
                       /\ player'.fishEaten = total
                       /\ player'.growthProgress.num * player.fishNeededToGrow * 1000
                              = total * player'.growthProgress.den

\* C22: eatFish(amount) with amount >= 0 adds amount * 10 * sizeLevel (the
\* level before the call) to the score and amount to the accumulated
\* fishEaten; it raises sizeLevel by exactly one, resetting fishEaten and
\* growthProgress to 0, if and only if the accumulated fishEaten has reached
\* fishNeededToGrow; otherwise sizeLevel is unchanged and growthProgress =
\* fishEaten / fishNeededToGrow
C22_EatFish ==
    [][\A a \in EatAmounts : (a >= 0 /\ EatFish(a)) => EatenAsStated(a)]_vars

\* a first meal of 7 fish took the player to level 2 for 70 points, a second
\* of 0.1 fish added 2 points and a fortieth of the 7 fish now needed
C22_Witness ==
    /\ eats = 2
    /\ player.sizeLevel = 2
    /\ player.score = 72
    /\ player.fishEaten = 100
    /\ player.growthProgress = [num |-> 1, den |-> 70]

(***************************************************************************)
(* Claims about the local player in a long game (checked under GrowthSpec) *)
(***************************************************************************)
LevelUp == player'.sizeLevel = player.sizeLevel + 1

\* C23: every level-up strictly increases the growth threshold: after grow()
\* the new fishNeededToGrow is floor(old * 1.5) and is strictly greater than
\* the old fishNeededToGrow
C23_LevelUpRaisesThreshold ==
    [][LevelUp =>
          /\ player'.fishNeededToGrow = (player.fishNeededToGrow * 3) \div 2
          /\ player'.fishNeededToGrow > player.fishNeededToGrow]_vars

(***************************************************************************)
(* A claim about the two ends of playerEaten (checked under PredationSpec) *)
(***************************************************************************)
\* the local player as the collision pass of the next frame meets it
AtPass == update(player)

\* the remote players the alive local player can eat in the next frame
Edible ==
    {i \in 1..Len(remotePlayers) :
        /\ connected /\ player.isAlive
        /\ remotePlayers[i].isAlive
        /\ canEat(AtPass, remotePlayers[i])}

\* the i-th remote player is cached as dead and exactly one playerEaten, with
\* its id, has been emitted
ReportedEaten(i) ==
    /\ ~remotePlayers'[i].isAlive
    /\ Cardinality(Sent(sent', "playerEaten")) = 1
    /\ \A k \in Sent(sent', "playerEaten") : sent'[k].arg.id = remotePlayers[i].id

\* the player's growth went up by half a fish per level of the eaten player
GrewBy(levels) ==
    LET total == AtPass.fishEaten + levels * 500 IN
    IF total >= AtPass.fishNeededToGrow * 1000
    THEN player'.sizeLevel = AtPass.sizeLevel + 1 /\ player'.fishEaten = 0
    ELSE player'.sizeLevel = AtPass.sizeLevel /\ player'.fishEaten = total

\* the client's end: a frame in which the edible remote player i overlaps the
\* player, alone or with enemies and foods; points is the score it brings
ClientEnd(i, points) ==
    /\ PassWith({remotePlayers[i].id}, {}, {}, {}) =>
           /\ ReportedEaten(i)
           /\ GrewBy(remotePlayers[i].sizeLevel)
           /\ gameScore' = gameScore + points
           /\ player'.score = gameScore'
    /\ \A overEnemies \in SUBSET (1..Len(enemies)),
          overLocal \in SUBSET (1..Len(localFoods)),
          overGame \in SUBSET (1..Len(gameFoods)) :
          PassWith({remotePlayers[i].id}, overEnemies, overLocal, overGame)
              => ReportedEaten(i)

\* the server's end: playerEaten for a snapshot it holds
ServerEnd ==
    lastOp' = "playerEaten" =>
        \A id \in DOMAIN players :
            (\E s \in conn : PlayerEaten(s, id)) =>
                /\ ~players'[id].isAlive
                /\ \A o \in DOMAIN players \ {id} : players'[o] = players[o]
                /\ DOMAIN players' = DOMAIN players
                /\ emitted' = {[to |-> c, ev |-> "playerDied", arg |-> id] : c \in conn}
                /\ emitted' # {}

\* C24 as first stated: when the alive local player overlaps an alive remote
\* player it can eat, in that collision pass the cached remote player's isAlive
\* becomes false, the local player's score goes up by 50 points and its growth
\* by 0.5 per level of the eaten player, and exactly one playerEaten carrying
\* the eaten player's id is emitted; the server then marks that snapshot not
\* alive and emits playerDied with that id
C24_PlayerEaten ==
    [][/\ Frame => \A i \in Edible : ClientEnd(i, remotePlayers[i].sizeLevel * 50)
       /\ ServerEnd]_vars

\* C24 (amended): as first stated, except that the score goes up by 50 points
\* per level of the eaten player through updateScore and by another 5 points
\* per level of the eaten player times the local player's own sizeLevel
\* through eatFish
C24_PlayerEatenScoredTwice ==
    [][/\ Frame =>
            \A i \in Edible :
                ClientEnd(i, remotePlayers[i].sizeLevel * (50 + 5 * AtPass.sizeLevel))
       /\ ServerEnd]_vars

\* the level-1 player has eaten a level-1 remote player in its first meal:
\* 50 points from updateScore, 5 from eatFish, half a fish of the 5 needed
C24_Witness ==
    /\ Len(remotePlayers) = 1
    /\ ~remotePlayers[1].isAlive
    /\ remotePlayers[1].sizeLevel = 1
    /\ Sent(sent, "playerEaten") # {}
    /\ gameScore = 55
    /\ player.score = 55
    /\ player.fishEaten = 500
    /\ eats = 1

(***************************************************************************)
(* The boost button held down (checked under BoostHeldSpec)                *)
(***************************************************************************)
\* the player when the button goes down: at rest at one of the levels, with
\* nothing or one food item eaten, or in the first frame of a level-up
HeldStarts ==
    LET rest == {LevelUps(NewPlayer, k) : k \in 0..(MaxLevel - 1)}
    IN  {startBoost(q) :
            q \in rest \cup {eatFish(r, 100) : r \in rest}
                      \cup {eatFish(r, 7000) : r \in {x \in rest : x.sizeLevel < MaxLevel}}}

BoostHeldInit ==
    /\ ServerInit /\ ClientInit /\ AIInit /\ AppInit /\ PoolInit /\ NetInit
    /\ player \in HeldStarts
    /\ boostTicks = 0
    /\ eats = 0

\* nothing is eaten and the button is not released: only frames happen, and
\* the requestAnimationFrame chain keeps them coming
BoostHeldNext == PlayerFrame

BoostHeldSpec == BoostHeldInit /\ [][BoostHeldNext]_vars /\ WF_vars(PlayerFrame)

\* sizeLevel 1, zero progress, boost off
AtFloor ==
    /\ player.sizeLevel = 1
    /\ player.fishEaten = 0
    /\ player.growthProgress.num = 0
    /\ ~player.boosting

\* what one frame does to a boosting player
DrainOrShrink ==
    (player.boosting /\ player' # player) =>
        \/ /\ player.fishEaten > 0
           /\ player'.fishEaten < player.fishEaten
           /\ player'.sizeLevel = player.sizeLevel
           /\ player'.boosting
        \/ /\ player.fishEaten = 0
           /\ player.sizeLevel > 1
           /\ player'.sizeLevel = player.sizeLevel - 1
           /\ player'.boosting
        \/ /\ player.fishEaten = 0
           /\ player.sizeLevel = 1
           /\ ~player'.boosting
           /\ player'.sizeLevel = 1 /\ player'.fishEaten = 0

C26_OneSpawnTimer ==
    /\ Len(liveTimers) <= 1
    /\ connectedPlayers = 0 => liveTimers = <<>>
    /\ \A i \in 1..Len(liveTimers) :
          liveTimers[i] = IF connectedPlayers = 1 THEN 2000 ELSE 500
    /\ \A i \in 1..Len(liveTimers) : liveTimers[i] = foodSpawnInterval
    /\ ENABLED SpawnTick => liveTimers # <<>>

\* two connects and a disconnect: of the 2000 ms, the 500 ms and the second
\* 2000 ms interval only the last one runs
C26_Witness ==
    /\ lastOp = "disconnect"
    /\ connectedPlayers = 1
    /\ liveTimers = <<2000>>

(***************************************************************************)
(* One frame of a held boost, level by level (checked under BoostHeldSpec) *)
(***************************************************************************)
\* what the frame's updateBoost tick does to a boosting player
C28_Step ==
    /\ (player.isAlive /\ player.boosting /\ ~(player.fishEaten > 0)
           /\ player.sizeLevel > 1) =>
          /\ player'.sizeLevel = player.sizeLevel - 1
          /\ player'.fishNeededToGrow = FloorDiv15(player.fishNeededToGrow)
          /\ player'.fishEaten = 900 * player'.fishNeededToGrow
          /\ player'.growthProgress.num * 10 = 9 * player'.growthProgress.den
          /\ player'.boosting
    /\ (player.isAlive /\ player.boosting /\ player.fishEaten > 0) =>
          /\ player'.sizeLevel = player.sizeLevel
          /\ player'.fishNeededToGrow = player.fishNeededToGrow
          /\ player'.fishEaten < player.fishEaten
          /\ player'.score = player.score
          /\ player'.boosting

\* C28: on an updateBoost tick while boosting with no progress left in the
\* current level and sizeLevel > 1, the player shrinks by exactly one level
\* and the new level's progress is seeded to 90% (fishEaten = 0.9 * the
\* recomputed fishNeededToGrow, growthProgress = 0.9) with boosting still on;
\* with progress left, the tick only drains progress and leaves sizeLevel
\* unchanged
C28_ShrinkSeedsNinetyPercent == [][C28_Step]_vars

\* the frame after a shrink from level 3: level 2 with 90% of its recomputed
\* threshold of 6, the shrink animation in its first frame, boost still on
C28_Witness ==
    /\ player.boosting
    /\ player.sizeLevel = 2
    /\ player.fishNeededToGrow = 6
    /\ player.fishEaten = 5400
    /\ player.growthAnimation.active
    /\ player.growthAnimation.timer = 1

(***************************************************************************)
(* Claims about the Game's screens and frame loop (checked under           *)
(* ScreenSpec)                                                             *)
(***************************************************************************)
\* C27: showElement(id) and hideElement(id) called with the id of an element
\* that does not exist do not throw and change nothing; consequently every
\* screen transition that uses them (startGame, startTutorial, gameOver)
\* runs to completion even when a referenced element is absent from the page
C27_MissingElementIsNoOp ==
    /\ app.threw \notin {"showElement", "hideElement"}
    /\ (app.last = "gameOver" /\ "game-over" \in document) =>
           "game-over" \notin app.hidden

TellsAlive(em, id) ==
    {e \in em : /\ e.ev \in {"playerJoined", "playerMoved", "playerRespawned"}
                /\ e.arg.id = id
                /\ e.arg.isAlive}

\* the snapshot of id is registered and not alive
MarkedDead(ps, id) == id \in DOMAIN ps /\ ~ps[id].isAlive

\* a step that leaves a dead snapshot dead and relays nothing that says
\* otherwise
C31_StaysDead(id) ==
    /\ id \in DOMAIN players' => ~players'[id].isAlive
    /\ TellsAlive(emitted', id) = {}

\* a dead snapshot is left only by the handlers named, each acting for the
\* player itself
C31_Until(id, handlers) ==
    MarkedDead(players, id) =>
        \/ C31_StaysDead(id)
        \/ /\ lastOp' \in handlers
           /\ id \in DOMAIN players' /\ players'[id].isAlive
           /\ \A e \in TellsAlive(emitted', id) :
                  e.ev # "playerRespawned" => e.to # id

\* playerEaten marks a registered player, playerRespawn revives its sender
C31_MarkAndRevive ==
    /\ \A e \in emitted' : e.ev = "playerDied" => MarkedDead(players', e.arg)
    /\ lastOp' = "playerRespawn" =>
           \A id \in DOMAIN players' :
               players'[id] # players[id] => players'[id].isAlive

\* C31: once the server has marked a player's snapshot not alive because of
\* a playerEaten report, that snapshot stays not alive (and no event telling
\* clients it is alive is relayed) until the server processes a
\* playerRespawn from that same player or the player disconnects
C31_DeadUntilRespawn ==
    [][C31_MarkAndRevive
       /\ \A id \in Sockets : C31_Until(id, {"playerRespawn"})]_vars

\* C31 as the code has it: the snapshot also comes back to life with the
\* player's next playerUpdate that reports isAlive true, and with a
\* playerJoin the player sends again
C31_DeadUntilOwnReport ==
    [][C31_MarkAndRevive
       /\ \A id \in Sockets :
              C31_Until(id, {"playerRespawn", "playerUpdate", "playerJoin"})]_vars

\* a playerUpdate has revived a snapshot that playerEaten had marked, next
\* to one that is still marked
C31_Witness ==
    /\ lastOp = "playerUpdate"
    /\ \E a, b \in DOMAIN players :
          /\ ~players[a].isAlive
          /\ players[b].isAlive /\ players[b].score = 50
          /\ \E e \in emitted : e.ev = "playerMoved" /\ e.arg.id = b /\ e.to = a

\* the food list never exceeds gameState.maxFoodItems
C37_Bounded == Len(foods) <= MaxFoodItems

\* what a step can do to the food list
C37_Step ==
    /\ (lastOp' = "spawnTick" /\ Len(foods) >= MaxFoodItems) =>
           foods' = foods /\ emitted' = {}
    /\ foods' # foods =>
           \/ /\ lastOp' = "spawnTick"
              /\ Len(foods') = Len(foods) + 1
              /\ SubSeq(foods', 1, Len(foods)) = foods
           \/ /\ lastOp' = "foodEaten"
              /\ \E id \in FoodIdsOf(foods) :
                    /\ foods' = SelectSeq(foods, LAMBDA f : f.id # id)
                    /\ Len(foods') = Len(foods) - 1
                    /\ \A e \in emitted' : e.ev = "foodRemoved" /\ e.arg = id

C33_EdibilityAntisymmetric ==
    \A i \in 1..Len(remotePlayers) :
        (player.radius > 0 /\ remotePlayers[i].radius > 0) =>
            ~(canEat(player, remotePlayers[i]) /\ canEat(remotePlayers[i], player))

(***************************************************************************)
(* A further claim about the growth threshold (checked under GrowthSpec)   *)
(***************************************************************************)
\* C34: fishNeededToGrow is a positive integer (>= 1) in every reachable
\* player state, after any sequence of level-ups (floor(x * 1.5)) and shrinks
\* (floor(x / 1.5)) starting from the initial value 5, so growthProgress =
\* fishEaten / fishNeededToGrow is always well defined and a level-up always
\* requires eating something
C34_ThresholdPositive ==
    /\ player.fishNeededToGrow >= 1
    /\ player.growthProgress.den # 0

(***************************************************************************)
(* A claim about the food pool (checked under PoolSpec)                    *)
(***************************************************************************)
\* no object twice in a list
NoDuplicates(list) == Cardinality(ObjectsOf(list)) = Len(list)

C39_Disjoint ==
    /\ ObjectsOf(foodManager.foods) \cap ObjectsOf(foodManager.pool) = {}
    /\ NoDuplicates(foodManager.foods)
    /\ NoDuplicates(foodManager.pool)
    /\ Len(foodManager.foods) <= MaxPoolFood

C39_Returns ==
    /\ (returned'.call = "spawnFood" /\ Len(foodManager.foods) >= MaxPoolFood) =>
           returned'.value = "null" /\ foodManager' = foodManager
    /\ returned'.call = "removeFoodById" =>
           LET ids == {foodManager.foods[i].id : i \in 1..Len(foodManager.foods)}
               i == FindIndex(foodManager.foods, returned'.arg)
           IN  IF returned'.arg \in ids
               THEN /\ returned'.value = "true"
                    /\ foodManager'.foods =
                           SubSeq(foodManager.foods, 1, i - 1)
                               \o SubSeq(foodManager.foods, i + 1,
                                         Len(foodManager.foods))
                    /\ foodManager.foods[i].obj \in ObjectsOf(foodManager'.pool)
               ELSE /\ returned'.value = "false"
                    /\ foodManager' = foodManager

\* C39: food pooling keeps active and free objects disjoint: after any
\* sequence of FoodManager.spawnFood, removeFood, removeFoodById and clear,
\* no Food object is both in the active foods list and in the ObjectPool's
\* free list, no object appears twice in either, |foods| <= maxFood,
\* spawnFood returns null at the cap, and removeFoodById returns true exactly
\* when an active food with that id was removed (false, with no change,
\* otherwise)
C39_PoolDisjoint == []C39_Disjoint /\ [][C39_Returns]_vars

\* clear() with the list full, after objects have been through the pool
\* before: everything is free again
C39_Witness ==
    /\ returned.call = "clear"
    /\ foodManager.foods = <<>>
    /\ foodManager.resets > MaxPoolFood
    /\ Len(foodManager.pool) = foodManager.made
    /\ foodManager.made > (MaxPoolFood + 1) \div 2

(***************************************************************************)
(* Claims about the browsers and the server together (checked under        *)
(* NetSpec, the liveness claim under NetFairSpec)                          *)
(***************************************************************************)
\* C38: a page holds at most one open connection: whenever startGame's
\* connect() makes a new one, no earlier connection of the same page is
\* still open, so a page counts once in connectedPlayers and leaves no
\* second snapshot in players
C38_OneConnectionPerPage ==
    \A c \in Browsers :
        /\ Cardinality(Owned(sockets, c)) <= 1
        /\ Cardinality({s \in DOMAIN server.players : sockets[s].owner = c}) <= 1

\* nothing is in flight: no packet on any connection, no connection waiting
\* for its 'connection' or its 'disconnect' handler
NetSettled ==
    \A s \in Connections :
        /\ sockets[s].down = <<>>
        /\ sockets[s].up = <<>>
        /\ sockets[s].state \in {"none", "open", "closed"}

\* the ids in a page's table of remote players
TableIds(b) == {b.players[i].id : i \in 1..Len(b.players)}

\* C35: once every connected page has sent playerJoin and nothing is in
\* flight, the table of remote players of each connected page holds exactly
\* the ids of the server's registered players other than the page's own
C35_RegistryConverges ==
    NetSettled =>
        \A c \in Browsers :
            browsers[c].connected =>
                TableIds(browsers[c]) = DOMAIN server.players \ {browsers[c].socket}

\* C36: once nothing is in flight, the food ids in game.foods of each
\* connected page are the food ids of the server's foods
C36_FoodMirrorConverges ==
    NetSettled =>
        \A c \in Browsers :
            browsers[c].connected =>
                {browsers[c].foods[i] : i \in 1..Len(browsers[c].foods)}
                    = FoodIdsOf(server.foods)

\* the server has marked the player of page c eaten
MarkedEaten(c) ==
    /\ browsers[c].socket \in DOMAIN server.players
    /\ ~server.players[browsers[c].socket].isAlive

\* C32: once the server has processed a playerEaten that names the player of
\* a page, that page eventually has its local player not alive (a page that
\* is closed has no living player either)
C32_VictimAgrees ==
    \A c \in Browsers : MarkedEaten(c) ~> ~browsers[c].isAlive

\* two pages are connected, nothing is in flight, and both list the food the
\* interval has spawned
C36_Witness ==
    /\ NetSettled
    /\ server.foods # <<>>
    /\ \A c \in Browsers :
         /\ browsers[c].connected
         /\ browsers[c].socket \in DOMAIN server.players
         /\ {browsers[c].foods[i] : i \in 1..Len(browsers[c].foods)}
                = FoodIdsOf(server.foods)

====
